---- MODULE Spec2Model ----
(***************************************************************************)
(* A model of spyden: matched-filter signal-to-noise ratio of folded pulse *)
(* profiles against normalised pulse templates.                            *)
(*                                                                         *)
(* The library is a set of pure functions and two small classes, so the    *)
(* model has one specification per component:                              *)
(*   SpecTemplate  Template.__init__, Template.boxcar, prepared_data       *)
(*   SpecBank      TemplateBank.__init__, prepared_data, list operations   *)
(*   SpecCpad      cpadpow2                                                *)
(*   Spec          snratio, statement by statement                         *)
(*                                                                         *)
(* Numbers.  numpy's floating point values are modelled by the exact real  *)
(* numbers they approximate.  Every value the library computes from small  *)
(* integer inputs has the form  n / (d * sqrt(s))  and is held in that     *)
(* form, in lowest terms with s square-free, so that equal numbers are     *)
(* equal records.  d = 0 holds IEEE's non-finite results of a division by  *)
(* zero: n # 0 is an infinity of that sign, n = 0 is NaN.  Rounding (of    *)
(* float64 arithmetic and of the cast to float32, which only changes the   *)
(* dtype here) is not modelled: equalities below are equalities of reals.  *)
(***************************************************************************)
EXTENDS Integers, Sequences, FiniteSets, TLC

VARIABLES
    tmpl,    \* SpecTemplate: the Template object last constructed, or None
    tcall,   \* SpecTemplate: the last call made and its arguments
    tret,    \* SpecTemplate: what that call returned or raised
    bank,    \* SpecBank: the TemplateBank object (its list contents), or None
    bcall,   \* SpecBank: the last call made and its arguments
    bret,    \* SpecBank: what that call returned or raised
    cx,      \* SpecCpad: the array given to the last cpadpow2 call
    cy,      \* SpecCpad: what that call returned or raised
    ccalls,  \* SpecCpad: how many times cpadpow2 has been applied
    pc,      \* Spec: the statement of snratio to execute next
    args,    \* Spec: the arguments of the call: data, temp, mu, sigma
    x,       \* Spec: snratio's local x (None while unassigned, as below)
    mean,    \* Spec: snratio's local mean
    std,     \* Spec: snratio's local std
    fx,      \* Spec: snratio's local fx
    y,       \* Spec: snratio's local y
    snr,     \* Spec: snratio's local snr
    result,  \* Spec: what the call returned or raised
    done,    \* Spec: the numeric steps performed so far, in order
    ncall,   \* SpecNoise: the last call of noise_mean or noise_std
    nret,    \* SpecNoise: what that call returned or raised
    kept,    \* SpecBatch: the call of snratio on a batch, once it has ended
    held,    \* SpecFrame: the objects the caller holds and passes to calls
    fcall,   \* SpecFrame: the last call made on them
    fret     \* SpecFrame: what that call returned or raised

tvars == <<tmpl, tcall, tret>>
bvars == <<bank, bcall, bret>>
cvars == <<cx, cy, ccalls>>
locals == <<x, mean, std, fx, y, snr>>
svars == <<pc, args, locals, result, done>>
nvars == <<ncall, nret>>
hvars == <<kept>>
fvars == <<held, fcall, fret>>
vars == <<tvars, bvars, cvars, svars, nvars, hvars, fvars>>

-----------------------------------------------------------------------------
(* Bounds of the model.                                                    *)

\* Longest template data array given to the Template constructor.
MaxSize == 3
\* Largest raw sample value in a template data array (samples are 0..MaxVal).
MaxVal == 2
\* prepared_data is asked for lengths 0..MaxSize+ExtraPad.
ExtraPad == 2
\* Widest boxcar among the elements offered to a TemplateBank.
MaxWidth == 2
\* Longest iterable a TemplateBank is constructed from, and longest list
\* it is grown to.
MaxBank == 2
\* Longest last axis of an array given to cpadpow2.
MaxLen == 5
\* Most widths given to TemplateBank.boxcars and TemplateBank.gaussians.
MaxWidths == 3
\* Largest width (fwhm) given to Template.gaussian.
MaxFwhm == 3
\* The values of exp are kept to this many steps between 0 and 1.
ExpGrid == 16
\* Most phase bins in a profile given to snratio.
MaxBins == 4
\* Longest template given to snratio.
MaxTemp == 4
\* Most profiles in a batch of which one carries a pulse.
MaxProf == 2
\* Most phase bins in a profile matched against a Gaussian template.
MaxGaussBins == 13
\* Widest pulse matched against a Gaussian template.
MaxPulse == 3
\* Amplitude of the strong pulse (test_snratio.py); the weak pulse has 2.
MaxAmp == 10
\* Phase bins of the profiles in which several templates share the maximum.
MaxTieBins == 8

-----------------------------------------------------------------------------
(* Python values.                                                          *)

None == [cls |-> "NoneType"]

\* The outcome of a call: a returned value, or a raised exception.
Return(v) == [ok |-> TRUE, val |-> v]
Raise(type, msg) == [ok |-> FALSE, exc |-> [type |-> type, msg |-> msg]]

PyInt(i) == [cls |-> "int", val |-> i]
PyFloat(i) == [cls |-> "float", val |-> i]
PyStr(str) == [cls |-> "str", str |-> str]
Dict(keys) == [cls |-> "dict", keys |-> keys]
\* The dict {'w': w}
DictW(w) == [cls |-> "dict", keys |-> {"w"}, w |-> w]

-----------------------------------------------------------------------------
(* Exact numbers n / (d * sqrt(s)).                                        *)

Abs(i) == IF i < 0 THEN -i ELSE i
Sign(i) == IF i < 0 THEN -1 ELSE IF i > 0 THEN 1 ELSE 0
Max(S) == CHOOSE m \in S : \A o \in S : o <= m
Min(S) == CHOOSE m \in S : \A o \in S : m <= o

RECURSIVE GCD(_, _)
GCD(a, b) == IF b = 0 THEN a ELSE GCD(b, a % b)

\* A number at or above the square root of s, for s below 2^31.
SqrtBound(s) ==
    IF s < 2^8 THEN 2^4 ELSE IF s < 2^12 THEN 2^6 ELSE IF s < 2^16 THEN 2^8
    ELSE IF s < 2^20 THEN 2^10 ELSE IF s < 2^24 THEN 2^12 ELSE 46340
\* The largest f with f*f dividing s.
SquarePart(s) ==
    Max({f \in 1..Min({s, SqrtBound(s)}) : f <= s \div f /\ s % (f * f) = 0})

NaN == [n |-> 0, d |-> 0, s |-> 1]
Inf(sign) == [n |-> sign, d |-> 0, s |-> 1]
\* A sum of two numbers with different radicands has no such form.
NoForm == [n |-> 0, d |-> 0, s |-> 0]

Canon(n, d, s) ==
    IF s = 0 THEN NoForm
    ELSE IF d = 0 THEN [n |-> Sign(n), d |-> 0, s |-> 1]
    ELSE IF n = 0 THEN [n |-> 0, d |-> 1, s |-> 1]
    ELSE LET f == SquarePart(s)
             dd == d * f
             g == GCD(Abs(n), dd)
         IN [n |-> n \div g, d |-> dd \div g, s |-> s \div (f * f)]

Num(i) == [n |-> i, d |-> 1, s |-> 1]
Frac(n, d) == Canon(n, d, 1)
Zero == Num(0)
One == Num(1)

IsFinite(a) == a.d # 0
IsNaN(a) == a.d = 0 /\ a.n = 0

Mul(a, b) ==
    IF a.s = 0 \/ b.s = 0 THEN NoForm
    ELSE IF a.s = b.s THEN Canon(a.n * b.n, a.d * b.d * a.s, 1)
    ELSE Canon(a.n * b.n, a.d * b.d, a.s * b.s)

Neg(a) == [a EXCEPT !.n = -a.n]

Add(a, b) ==
    IF a.s = 0 \/ b.s = 0 THEN NoForm
    ELSE IF a.d = 0 \/ b.d = 0
    THEN IF IsNaN(a) \/ IsNaN(b) THEN NaN
         ELSE IF a.d = 0 /\ b.d = 0
         THEN (IF a.n = b.n THEN a ELSE NaN)
         ELSE (IF a.d = 0 THEN a ELSE b)
    ELSE IF a.n = 0 THEN b
    ELSE IF b.n = 0 THEN a
    ELSE IF a.s = b.s THEN Canon(a.n * b.d + b.n * a.d, a.d * b.d, a.s)
    ELSE NoForm

Sub(a, b) == Add(a, Neg(b))

\* 1 / a
Inv(a) ==
    IF a.s = 0 THEN NoForm
    ELSE IF a.d = 0 THEN (IF a.n = 0 THEN NaN ELSE Zero)
    ELSE IF a.n = 0 THEN Inf(1)
    ELSE Canon(Sign(a.n) * a.d * a.s, Abs(a.n), a.s)

Div(a, b) ==
    IF IsFinite(a) /\ a.n = 0 /\ IsFinite(b) /\ b.n = 0 THEN NaN
    ELSE Mul(a, Inv(b))

\* a ** -0.5 for a rational a (numpy: inf at 0, nan below 0)
RSqrt(a) ==
    IF a.s # 1 THEN NoForm
    ELSE IF a.d = 0 THEN (IF a.n > 0 THEN Zero ELSE NaN)
    ELSE IF a.n = 0 THEN Inf(1)
    ELSE IF a.n < 0 THEN NaN
    ELSE Canon(a.d, 1, a.n * a.d)

\* a < b: by sign, then by comparing the square of the ratio a / b (which
\* is rational) with one
Ratio(a, b) ==
    IF IsFinite(b) THEN Mul(a, Inv(b)) ELSE IF IsFinite(a) THEN Zero ELSE One
BelowOne(r) == r.n * r.n < r.d * r.d * r.s
AboveOne(r) == r.n * r.n > r.d * r.d * r.s
Less(a, b) ==
    IF Sign(a.n) # Sign(b.n) THEN Sign(a.n) < Sign(b.n)
    ELSE IF Sign(a.n) = 0 THEN FALSE
    ELSE IF Sign(a.n) > 0 THEN BelowOne(Ratio(a, b))
    ELSE AboveOne(Ratio(a, b))

RECURSIVE SumSeq(_)
SumSeq(q) == IF q = <<>> THEN Zero ELSE Add(q[1], SumSeq(Tail(q)))

SumSq(q) == SumSeq([i \in DOMAIN q |-> Mul(q[i], q[i])])

-----------------------------------------------------------------------------
(* numpy arrays: a dtype, a shape and the values, held as the sequence of   *)
(* the array's rows along its last axis (one row for a 1-D array).         *)

Array(dtype, shape, v) ==
    [cls |-> "ndarray", dtype |-> dtype, shape |-> shape, v |-> v]
Array1(v) == Array("float64", <<Len(v)>>, <<v>>)
\* The values of a one-dimensional array
Vals(a) == a.v[1]
Array2(rows, p) == Array("float64", <<Len(rows), p>>, rows)
List(v) == [cls |-> "list", v |-> <<v>>]

IsArray(a) == a.cls = "ndarray"
\* ndim that reports every array as one-dimensional
Ndim_always_one(a) == 1
Ndim(a) == Len(a.shape)
RECURSIVE Prod(_)
Prod(q) == IF q = <<>> THEN 1 ELSE q[1] * Prod(Tail(q))
ArraySize(a) == Prod(a.shape)
AsType(a, dtype) == [a EXCEPT !.dtype = dtype]

\* np.pad(x, (0, k), mode='constant', constant_values=0) on values
PadZeros(v, k) == v \o [i \in 1..k |-> Zero]
\* np.roll(x, k): out[i] = x[(i - k) mod n], indices from 0
\* np.roll(v, -k)
Roll_backwards(v, k) ==
    LET n == Len(v)
    IN [i \in 1..n |-> v[((i - 1 + k) % n) + 1]]
\* np.roll(v, k)
Roll(v, k) ==
    LET n == Len(v)
    IN [i \in 1..n |-> v[((i - 1 - k) % n) + 1]]
\* x[::-1]
Reversed(v) == [i \in 1..Len(v) |-> v[Len(v) + 1 - i]]
\* The values of q in ascending order (a stable sort)
SortNums(q) ==
    LET before(i) ==
            Cardinality({j \in DOMAIN q :
                Less(q[j], q[i]) \/ (~Less(q[i], q[j]) /\ j < i)})
    IN [k \in DOMAIN q |-> q[CHOOSE i \in DOMAIN q : before(i) = k - 1]]

-----------------------------------------------------------------------------
(* The state of a component no call has been made on.                      *)

BankIdle ==
    /\ bank = None
    /\ bcall = [op |-> "none"]
    /\ bret = Return(None)

CpadIdle ==
    /\ cx = None
    /\ cy = Return(None)
    /\ ccalls = 0

NoiseIdle ==
    /\ ncall = [op |-> "none"]
    /\ nret = Return(None)

BatchIdle == kept = None

FrameIdle ==
    /\ held = None
    /\ fcall = [op |-> "none"]
    /\ fret = Return(None)

SnrIdle ==
    /\ pc = "idle"
    /\ args = None
    /\ x = None /\ mean = None /\ std = None
    /\ fx = None /\ y = None /\ snr = None
    /\ result = Return(None)
    /\ done = <<>>

-----------------------------------------------------------------------------
(* template.py                                                             *)

normalise(data) ==
    LET sqsum == SumSq(Vals(data))
        k == RSqrt(sqsum)
    IN Array1([i \in DOMAIN Vals(data) |-> Mul(Vals(data)[i], k)])

\* Template.__init__ with the upper bound on refbin off by one
Template_refbin_at_size(data, refbin, reference, kind, shape_params) ==
    IF ~IsArray(data) \/ Ndim(data) # 1 \/ ArraySize(data) = 0
       \/ refbin.cls # "int"
       \/ ~(0 <= refbin.val /\ refbin.val <= ArraySize(data))
    THEN Raise("ValueError", "invalid arguments")
    ELSE Return([cls |-> "Template",
                 data |-> normalise(data),
                 refbin |-> refbin.val,
                 reference |-> reference,
                 kind |-> kind,
                 shape_params |-> shape_params])

\* Template.__init__
Template(data, refbin, reference, kind, shape_params) ==
    IF ~IsArray(data)
    THEN Raise("ValueError", "data must be a np.ndarray instance")
    ELSE IF Ndim(data) # 1
    THEN Raise("ValueError", "data must have exactly one dimension")
    ELSE IF ArraySize(data) = 0
    THEN Raise("ValueError", "data is empty")
    ELSE IF refbin.cls # "int"
    THEN Raise("ValueError", "refbin must be an int")
    ELSE IF ~(0 <= refbin.val /\ refbin.val < ArraySize(data))
    THEN Raise("ValueError", "Must have 0 <= refbin < data.size")
    ELSE Return([cls |-> "Template",
                 data |-> normalise(data),
                 refbin |-> refbin.val,
                 reference |-> reference,
                 kind |-> kind,
                 shape_params |-> shape_params])

IsTemplate(t) == t.cls = "Template"
\* Template.size
size(t) == ArraySize(t.data)

\* Template.prepared_data that reverses the element order (y[k] = x[n-1-k])
\* instead of reversing time (y[k] = x[-k mod n])
prepared_data_plain_reversal(t, n) ==
    IF ~(n >= size(t))
    THEN Raise("ValueError", "Cannot pad template data to length n")
    ELSE LET x0 == PadZeros(Vals(t.data), n - size(t))
             x1 == Roll(x0, -t.refbin)
         IN Return(AsType(Array1(Reversed(x1)), "float32"))

\* Template.prepared_data that refuses n = size
prepared_data_strict(t, n) ==
    IF ~(n > size(t))
    THEN Raise("ValueError", "Cannot pad template data to length n")
    ELSE LET x0 == PadZeros(Vals(t.data), n - size(t))
             x1 == Roll(x0, -t.refbin)
             x2 == Roll(Reversed(x1), 1)
         IN Return(AsType(Array1(x2), "float32"))

\* Template.prepared_data
prepared_data(t, n) ==
    IF ~(n >= size(t))
    THEN Raise("ValueError", "Cannot pad template data to length n")
    ELSE LET x0 == PadZeros(Vals(t.data), n - size(t))
             x1 == Roll(x0, -t.refbin)
             x2 == Roll(Reversed(x1), 1)
         IN Return(AsType(Array1(x2), "float32"))

\* np.ones(w)
Ones(w) == Array1([i \in 1..w |-> One])

\* Template.boxcar with the reference bin at the centre of the boxcar
boxcar_centred(w) ==
    IF w.cls # "int"
    THEN Raise("ValueError", "w must be of type int")
    ELSE IF ~(w.val > 0)
    THEN Raise("ValueError", "w must be strictly positive")
    ELSE Template(Ones(w.val), PyInt(w.val \div 2), "start", "boxcar", DictW(w))

\* Template.boxcar
boxcar(w) ==
    IF w.cls # "int"
    THEN Raise("ValueError", "w must be of type int")
    ELSE IF ~(w.val > 0)
    THEN Raise("ValueError", "w must be strictly positive")
    ELSE Template(Ones(w.val), PyInt(0), "start", "boxcar", DictW(w))

\* 3.5 / (2 * sqrt(2 * log(2))) = 1.4863011, the number of bins on each
\* side of the peak per unit of fwhm, as a ratio of integers
SpanNum == 14863011
SpanDen == 10000000

\* int(ceil(n / d)) for n >= 0, d > 0
CeilDiv(n, d) == (n + d - 1) \div d

\* exp(-x**2 / (2 * sigma**2)) with sigma = w / (2 * sqrt(2 * log(2))), which
\* is 2^(-e) with e = 4 x^2 / w^2.  With k the whole part of e and f its
\* fractional part, 2^(-e) is taken as 2^(-k) * (1 - f / 2), which is exact
\* where e is whole and decreasing in e, rounded down to the grid of
\* 1 / ExpGrid.
GaussianValue(xx, w) ==
    LET a == 4 * xx * xx
        b == w * w
        k == a \div b
        rem == a % b
    IN IF k >= ExpGrid THEN Zero
       ELSE Frac((ExpGrid * (2 * b - rem)) \div (2 * b * 2 ^ k), ExpGrid)

\* Template.gaussian whose bins stop one short: np.arange(-xmax, xmax)
gaussian_short_range(w) ==
    IF w.cls \notin {"float", "int"}
    THEN Raise("ValueError", "w must be of type float or int")
    ELSE IF ~(w.val > 0)
    THEN Raise("ValueError", "w must be strictly positive")
    ELSE LET xmax == CeilDiv(w.val * SpanNum, SpanDen)
             data == Array1([i \in 1..(2 * xmax) |-> GaussianValue(i - 1 - xmax, w.val)])
         IN Template(data, PyInt((2 * xmax) \div 2), "peak", "gaussian", DictW(PyFloat(w.val)))

\* Template.gaussian
gaussian(w) ==
    IF w.cls \notin {"float", "int"}
    THEN Raise("ValueError", "w must be of type float or int")
    ELSE IF ~(w.val > 0)
    THEN Raise("ValueError", "w must be strictly positive")
    ELSE LET xmax == CeilDiv(w.val * SpanNum, SpanDen)
             data == Array1([i \in 1..(2 * xmax + 1) |->
                        GaussianValue(i - 1 - xmax, w.val)])
         IN Template(data, PyInt((2 * xmax + 1) \div 2), "peak", "gaussian",
                     DictW(PyFloat(w.val)))

-----------------------------------------------------------------------------
(* SpecTemplate: the life of one Template object.  It is constructed once, *)
(* by the constructor or by a named constructor, and then asked for its    *)
(* prepared data any number of times.                                      *)

Seqs(S, n) == UNION {[1..k -> S] : k \in 0..n}
RawData == Seqs(0..MaxVal, MaxSize)
NumSeq(raw) == [i \in DOMAIN raw |-> Num(raw[i])]

\* What callers pass as data: a 1-D array, a 2-D array of one row, a list.
DataArgs ==
    {Array1(NumSeq(raw)) : raw \in RawData}
    \cup {Array2(<<NumSeq(raw)>>, Len(raw)) : raw \in RawData}
    \cup {List(NumSeq(raw)) : raw \in RawData}
IntArgs == {PyInt(i) : i \in -1..MaxSize} \cup {PyFloat(i) : i \in -1..MaxSize}
\* What callers pass as the fwhm of a Gaussian
WidthArgs ==
    {PyInt(i) : i \in -1..MaxFwhm} \cup {PyFloat(i) : i \in -1..MaxFwhm}
    \cup {PyStr("1")}
MetaArgs ==
    {[reference |-> "start", kind |-> "undefined", shape_params |-> Dict({})],
     [reference |-> "secondbin", kind |-> "custom", shape_params |-> Dict({"hello"})]}

TemplateIdle ==
    /\ tmpl = None
    /\ tcall = [op |-> "none"]
    /\ tret = Return(None)

\* t = Template(data, refbin, reference, kind, shape_params)
Construct ==
    /\ tcall.op = "none"
    /\ UNCHANGED <<bvars, cvars, svars, nvars, hvars, fvars>>
    /\ \E data \in DataArgs, refbin \in IntArgs, meta \in MetaArgs :
        LET r == Template(data, refbin, meta.reference, meta.kind, meta.shape_params)
        IN /\ tcall' = [op |-> "Template", data |-> data, refbin |-> refbin,
                        meta |-> meta]
           /\ tret' = r
           /\ tmpl' = IF r.ok THEN r.val ELSE None

\* t = Template.boxcar(w)
Boxcar ==
    /\ tcall.op = "none"
    /\ UNCHANGED <<bvars, cvars, svars, nvars, hvars, fvars>>
    /\ \E w \in IntArgs :
        LET r == boxcar(w)
        IN /\ tcall' = [op |-> "boxcar", w |-> w]
           /\ tret' = r
           /\ tmpl' = IF r.ok THEN r.val ELSE None

\* t = Template.gaussian(w)
Gaussian ==
    /\ tcall.op = "none"
    /\ UNCHANGED <<bvars, cvars, svars, nvars, hvars, fvars>>
    /\ \E w \in WidthArgs :
        LET r == gaussian(w)
        IN /\ tcall' = [op |-> "gaussian", w |-> w]
           /\ tret' = r
           /\ tmpl' = IF r.ok THEN r.val ELSE None

\* t.prepared_data(n)
PreparedData ==
    /\ tmpl # None
    /\ UNCHANGED <<bvars, cvars, svars, nvars, hvars, fvars>>
    /\ \E n \in 0..(Max({MaxSize, size(tmpl)}) + ExtraPad) :
        /\ tcall' = [op |-> "prepared_data", n |-> n]
        /\ tret' = prepared_data(tmpl, n)
        /\ tmpl' = tmpl

InitTemplate == TemplateIdle /\ BankIdle /\ CpadIdle /\ SnrIdle /\ NoiseIdle /\ BatchIdle /\ FrameIdle
NextTemplate == Construct \/ Boxcar \/ Gaussian \/ PreparedData
SpecTemplate == InitTemplate /\ [][NextTemplate]_vars

-----------------------------------------------------------------------------
(* TemplateBank, a subclass of list.                                       *)

\* An iterable of Python: a list (re-iterable, false when empty) or an
\* iterator such as a generator (always true, consumed as it is read).
Iterable(cls, items) == [cls |-> cls, items |-> items]
Truth(it) == IF it.cls = "iterator" THEN TRUE ELSE it.items # <<>>

\* Index of the first element of q that is no Template, 0 if there is none
RECURSIVE FirstNonTemplate(_, _)
FirstNonTemplate(q, i) ==
    IF i > Len(q) THEN 0
    ELSE IF ~IsTemplate(q[i]) THEN i
    ELSE FirstNonTemplate(q, i + 1)

\* all(isinstance(t, Template) for t in templates): the answer, and what is
\* left of templates to iterate over afterwards
AllTemplates(it) ==
    LET k == FirstNonTemplate(it.items, 1)
        read == IF k = 0 THEN Len(it.items) ELSE k
    IN [all |-> k = 0,
        rest |-> IF it.cls = "iterator"
                 THEN Iterable(it.cls, SubSeq(it.items, read + 1, Len(it.items)))
                 ELSE it]

\* TemplateBank.__init__
TemplateBank(templates) ==
    IF ~Truth(templates)
    THEN Raise("ValueError", "templates is empty")
    ELSE LET chk == AllTemplates(templates)
         IN IF ~chk.all
            THEN Raise("ValueError", "All input elements must be of Template instances")
            ELSE Return([cls |-> "TemplateBank", items |-> chk.rest.items])

IsTemplateBank(b) == b.cls = "TemplateBank"
\* len(bank)
len(b) == Len(b.items)

\* TemplateBank.maxsize
maxsize(b) ==
    IF b.items = <<>>
    THEN Raise("ValueError", "max() arg is an empty sequence")
    ELSE IF FirstNonTemplate(b.items, 1) # 0
    THEN Raise("AttributeError", "object has no attribute 'size'")
    ELSE Return(Max({size(b.items[j]) : j \in DOMAIN b.items}))

\* The bank after maxsize, had it been written with an in-place sort:
\* self.sort(key=lambda t: t.size); return self[-1].size
maxsize_self_sorted(b) ==
    IF FirstNonTemplate(b.items, 1) # 0 THEN b
    ELSE LET q == b.items
             before(i) ==
                Cardinality({j \in DOMAIN q :
                    size(q[j]) < size(q[i]) \/ (size(q[j]) = size(q[i]) /\ j < i)})
         IN [b EXCEPT !.items =
                [k \in DOMAIN q |-> q[CHOOSE i \in DOMAIN q : before(i) = k - 1]]]

\* The bank after maxsize: max() reads the members through a generator
maxsize_self(b) == b

\* The first element of the bank that prepared_data(n) fails on, 0 if none
RECURSIVE FirstUnprepared(_, _, _)
FirstUnprepared(q, n, j) ==
    IF j > Len(q) THEN 0
    ELSE IF ~IsTemplate(q[j]) THEN j
    ELSE IF ~prepared_data(q[j], n).ok THEN j
    ELSE FirstUnprepared(q, n, j + 1)

\* TemplateBank.prepared_data
bank_prepared_data(b, n) ==
    LET k == FirstUnprepared(b.items, n, 1)
    IN IF k # 0
       THEN (IF IsTemplate(b.items[k])
             THEN prepared_data(b.items[k], n)
             ELSE Raise("AttributeError", "object has no attribute 'prepared_data'"))
       ELSE IF b.items = <<>>
       THEN Return(Array("float64", <<0>>, <<>>))
       ELSE Return(Array("float32", <<len(b), n>>,
                   [j \in DOMAIN b.items |-> Vals(prepared_data(b.items[j], n).val)]))

\* sorted(widths, reverse=True): widest first
sorted_descending(widths) ==
    LET before(i) ==
            Cardinality({j \in DOMAIN widths :
                widths[j].val > widths[i].val
                    \/ (widths[j].val = widths[i].val /\ j < i)})
    IN [k \in DOMAIN widths |->
            widths[CHOOSE i \in DOMAIN widths : before(i) = k - 1]]

\* sorted(widths): ascending by value, equal values in their input order
sorted(widths) ==
    LET before(i) ==
            Cardinality({j \in DOMAIN widths :
                widths[j].val < widths[i].val
                    \/ (widths[j].val = widths[i].val /\ j < i)})
    IN [k \in DOMAIN widths |->
            widths[CHOOSE i \in DOMAIN widths : before(i) = k - 1]]

\* Index of the first outcome of q that is a raise, 0 if there is none
RECURSIVE FirstRaise(_, _)
FirstRaise(q, i) ==
    IF i > Len(q) THEN 0
    ELSE IF ~q[i].ok THEN i
    ELSE FirstRaise(q, i + 1)

\* cls([make(w) for w in ordered]), made being the outcomes of make
BankOf(made) ==
    IF FirstRaise(made, 1) # 0 THEN made[FirstRaise(made, 1)]
    ELSE TemplateBank(Iterable("list", [j \in DOMAIN made |-> made[j].val]))

\* TemplateBank.boxcars
boxcars(widths) == BankOf([j \in DOMAIN widths |-> boxcar(sorted(widths)[j])])

\* TemplateBank.gaussians
gaussians(widths) == BankOf([j \in DOMAIN widths |-> gaussian(sorted(widths)[j])])

\* The bank after prepared_data: the list comprehension only reads it
bank_prepared_data_self(b, n) == b

-----------------------------------------------------------------------------
(* SpecBank: the life of one TemplateBank object.  It is constructed once  *)
(* from an iterable; its holder then uses the methods the class defines    *)
(* and those it inherits from list.                                        *)

ramp(k) == Array1([i \in 1..k |-> Num(i)])
NotATemplate == PyInt(0)
Elements ==
    {boxcar(PyInt(w)).val : w \in 1..MaxWidth}
    \cup {Template(ramp(MaxWidth), PyInt(1), "peak", "ramp", Dict({})).val}
    \cup {NotATemplate}
Iterables ==
    {Iterable(c, q) : c \in {"list", "iterator"}, q \in Seqs(Elements, MaxBank)}

\* bank = TemplateBank(templates)
BankConstruct ==
    /\ bcall.op = "none"
    /\ UNCHANGED <<tvars, cvars, svars, nvars, hvars, fvars>>
    /\ \E templates \in Iterables :
        LET r == TemplateBank(templates)
        IN /\ bcall' = [op |-> "TemplateBank", templates |-> templates]
           /\ bret' = r
           /\ bank' = IF r.ok THEN r.val ELSE None

\* What callers pass as widths: ints and floats, in any order
WidthValues == {PyInt(w) : w \in 0..MaxWidth} \cup {PyFloat(w) : w \in 1..MaxWidth}
WidthSeqs == Seqs(WidthValues, MaxWidths)

\* bank = TemplateBank.boxcars(widths)
BankBoxcars ==
    /\ bcall.op = "none"
    /\ UNCHANGED <<tvars, cvars, svars, nvars, hvars, fvars>>
    /\ \E widths \in WidthSeqs :
        LET r == boxcars(widths)
        IN /\ bcall' = [op |-> "boxcars", widths |-> widths]
           /\ bret' = r
           /\ bank' = IF r.ok THEN r.val ELSE None

\* bank = TemplateBank.gaussians(widths)
BankGaussians ==
    /\ bcall.op = "none"
    /\ UNCHANGED <<tvars, cvars, svars, nvars, hvars, fvars>>
    /\ \E widths \in WidthSeqs :
        LET r == gaussians(widths)
        IN /\ bcall' = [op |-> "gaussians", widths |-> widths]
           /\ bret' = r
           /\ bank' = IF r.ok THEN r.val ELSE None

\* bank.maxsize
BankMaxsize ==
    /\ bank # None
    /\ UNCHANGED <<tvars, cvars, svars, nvars, hvars, fvars>>
    /\ bcall' = [op |-> "maxsize"]
    /\ bret' = maxsize(bank)
    /\ bank' = maxsize_self(bank)

\* bank.prepared_data(n)
BankPreparedData ==
    /\ bank # None
    /\ UNCHANGED <<tvars, cvars, svars, nvars, hvars, fvars>>
    /\ \E n \in 0..(MaxSize + ExtraPad) :
        /\ bcall' = [op |-> "prepared_data", n |-> n]
        /\ bret' = bank_prepared_data(bank, n)
        /\ bank' = bank_prepared_data_self(bank, n)

\* bank[j].prepared_data(n), for a member that is a Template
MemberPreparedData ==
    /\ bank # None
    /\ UNCHANGED <<tvars, cvars, svars, nvars, hvars, fvars>>
    /\ \E j \in DOMAIN bank.items, n \in 0..(MaxSize + ExtraPad) :
        /\ IsTemplate(bank.items[j])
        /\ bcall' = [op |-> "member.prepared_data", j |-> j, n |-> n]
        /\ bret' = prepared_data(bank.items[j], n)
        /\ bank' = bank

\* bank.append(e), inherited from list
BankAppend ==
    /\ bank # None
    /\ len(bank) < MaxBank
    /\ UNCHANGED <<tvars, cvars, svars, nvars, hvars, fvars>>
    /\ \E e \in Elements :
        /\ bcall' = [op |-> "append", e |-> e]
        /\ bret' = Return(None)
        /\ bank' = [bank EXCEPT !.items = Append(@, e)]

\* bank.pop(), inherited from list
BankPop ==
    /\ bank # None
    /\ UNCHANGED <<tvars, cvars, svars, nvars, hvars, fvars>>
    /\ bcall' = [op |-> "pop"]
    /\ IF bank.items = <<>>
       THEN /\ bret' = Raise("IndexError", "pop from empty list")
            /\ bank' = bank
       ELSE /\ bret' = Return(bank.items[len(bank)])
            /\ bank' = [bank EXCEPT !.items = SubSeq(@, 1, Len(@) - 1)]

\* bank.clear(), inherited from list
BankClear ==
    /\ bank # None
    /\ UNCHANGED <<tvars, cvars, svars, nvars, hvars, fvars>>
    /\ bcall' = [op |-> "clear"]
    /\ bret' = Return(None)
    /\ bank' = [bank EXCEPT !.items = <<>>]

\* bank.reverse(), inherited from list
BankReverse ==
    /\ bank # None
    /\ UNCHANGED <<tvars, cvars, svars, nvars, hvars, fvars>>
    /\ bcall' = [op |-> "reverse"]
    /\ bret' = Return(None)
    /\ bank' = [bank EXCEPT !.items = Reversed(@)]

InitBank == TemplateIdle /\ BankIdle /\ CpadIdle /\ SnrIdle /\ NoiseIdle /\ BatchIdle /\ FrameIdle
NextBank ==
    \/ BankConstruct
    \/ BankBoxcars
    \/ BankGaussians
    \/ BankMaxsize
    \/ BankPreparedData
    \/ MemberPreparedData
    \/ BankAppend
    \/ BankPop
    \/ BankClear
    \/ BankReverse
SpecBank == InitBank /\ [][NextBank]_vars

-----------------------------------------------------------------------------
(* cpad.py                                                                 *)

\* int(ceil(log2(n))) for n >= 1: the least k with 2^k >= n
RECURSIVE CeilLog2(_)
CeilLog2(n) == IF n <= 1 THEN 0 ELSE 1 + CeilLog2((n + 1) \div 2)

\* ceilpow2 with floor(log2(n)) + 1 for ceil(log2(n)): the next power of
\* two above n, also when n is one
ceilpow2_above(n) ==
    IF n = 0
    THEN Raise("OverflowError", "cannot convert float infinity to integer")
    ELSE Return(2 ^ CeilLog2(n + 1))

ceilpow2(n) ==
    IF n = 0
    THEN Raise("OverflowError", "cannot convert float infinity to integer")
    ELSE Return(2 ^ CeilLog2(n))

\* np.pad(x, ... [(0, k)], mode='wrap') on one row
PadWrap(row, k) == [i \in 1..(Len(row) + k) |-> row[((i - 1) % Len(row)) + 1]]

LastAxis(a) == a.shape[Len(a.shape)]

cpadpow2(a) ==
    LET n == LastAxis(a)
        N == ceilpow2(n)
    IN IF ~N.ok THEN N
       ELSE Return([a EXCEPT !.shape[Len(a.shape)] = N.val,
                             !.v = [i \in DOMAIN a.v |-> PadWrap(a.v[i], N.val - n)]])

-----------------------------------------------------------------------------
(* SpecCpad: cpadpow2 applied to an array, then to its own result.         *)

CpadArgs ==
    {Array1(NumSeq(raw)) : raw \in Seqs(0..MaxVal, MaxLen)}
    \cup {Array2(<<NumSeq(raw), NumSeq(Reversed(raw))>>, Len(raw)) :
            raw \in Seqs(0..MaxVal, MaxLen)}

InitCpad ==
    /\ TemplateIdle /\ BankIdle /\ SnrIdle /\ NoiseIdle /\ BatchIdle /\ FrameIdle
    /\ cx \in CpadArgs
    /\ cy = Return(None)
    /\ ccalls = 0

\* y = cpadpow2(x)
CpadCall ==
    /\ ccalls = 0
    /\ UNCHANGED <<tvars, bvars, svars, nvars, hvars, fvars>>
    /\ cy' = cpadpow2(cx)
    /\ cx' = cx
    /\ ccalls' = 1

\* y = cpadpow2(y)
CpadAgain ==
    /\ ccalls = 1
    /\ cy.ok
    /\ UNCHANGED <<tvars, bvars, svars, nvars, hvars, fvars>>
    /\ cx' = cy.val
    /\ cy' = cpadpow2(cy.val)
    /\ ccalls' = 2

NextCpad == CpadCall \/ CpadAgain
SpecCpad == InitCpad /\ [][NextCpad]_vars

-----------------------------------------------------------------------------
(* noisestats.py                                                           *)

\* The numerator and denominator of the constant 1.3489795003921634 that
\* noise_std_iqr divides the inter-quartile range by, rounded to 27/20
IqrScaleNum == 27
IqrScaleDen == 20

\* a ** 0.5 for a rational a (numpy: nan below 0)
Sqrt(a) ==
    IF a.s # 1 THEN NoForm
    ELSE IF a.d = 0 THEN (IF a.n > 0 THEN a ELSE NaN)
    ELSE IF a.n < 0 THEN NaN
    ELSE IF a.n = 0 THEN Zero
    ELSE Canon(a.n, 1, a.n * a.d)

\* np.median of one row
Median(row) ==
    LET ordered == SortNums(row)
        n == Len(row)
    IN IF n = 0 THEN NaN
       ELSE IF n % 2 = 1 THEN ordered[(n + 1) \div 2]
       ELSE Mul(Add(ordered[n \div 2], ordered[n \div 2 + 1]), Frac(1, 2))

\* np.percentile of one row (linear interpolation between closest ranks)
Percentile(row, q) ==
    LET ordered == SortNums(row)
        n == Len(row)
        pos == q * (n - 1)
        lo == pos \div 100
    IN IF n = 0 THEN NaN
       ELSE IF pos % 100 = 0 THEN ordered[lo + 1]
       ELSE Add(ordered[lo + 1],
                Mul(Frac(pos % 100, 100), Sub(ordered[lo + 2], ordered[lo + 1])))

\* noise_std_iqr, one row
noise_std_iqr(row) ==
    Div(Sub(Percentile(row, 75), Percentile(row, 25)), Frac(IqrScaleNum, IqrScaleDen))

\* np.diff
Diff(row) == [i \in 1..(Len(row) - 1) |-> Sub(row[i + 1], row[i])]
Average(q) == Div(SumSeq(q), Num(Len(q)))
\* np.cov(a, b)[0, 1]: the sample covariance, nan for fewer than two samples
Cov(a, b) ==
    LET n == Len(a)
        fact == IF n - 1 <= 0 THEN 0 ELSE n - 1
        dot == SumSeq([i \in 1..n |->
                    Mul(Sub(a[i], Average(a)), Sub(b[i], Average(b)))])
    IN IF n = 0 THEN NaN ELSE Div(dot, Num(fact))

\* noise_std_diffcov.func, one row
noise_std_diffcov(line) ==
    LET yy == Diff(line)
        c == Cov(SubSeq(yy, 1, Len(yy) - 1), SubSeq(yy, 2, Len(yy)))
        sw2 == Neg(c)
    IN Sqrt(sw2)

\* noise_mean_median
noise_mean_median(data) == Array1([i \in DOMAIN data.v |-> Median(data.v[i])])

\* The registries of estimators, by name, in the order of their keys
NOISE_STD_METHODS == <<"iqr", "diffcov">>
NOISE_MEAN_METHODS == <<"median">>
Keys(registry) == {registry[i] : i \in DOMAIN registry}

\* The error of a name that is in no registry: its message lists the keys
UnknownMethod(text, registry) ==
    [ok |-> FALSE,
     exc |-> [type |-> "ValueError", msg |-> text, choices |-> registry]]

\* get_std_method written with dict.get, which returns None for a missing
\* key instead of raising KeyError
get_std_method_with_get(name) ==
    IF name \in Keys(NOISE_STD_METHODS) THEN Return(name) ELSE Return("None")

\* get_mean_method
get_mean_method(name) ==
    IF name \in Keys(NOISE_MEAN_METHODS) THEN Return(name)
    ELSE UnknownMethod("Noise mean estimation method must be one of: ",
                       NOISE_MEAN_METHODS)

\* get_std_method
get_std_method(name) ==
    IF name \in Keys(NOISE_STD_METHODS) THEN Return(name)
    ELSE UnknownMethod("Noise stddev estimation method must be one of: ",
                       NOISE_STD_METHODS)

\* func(data) for the function a registry holds under the name func
CallEstimator(func, data) ==
    IF func = "median" THEN Return(noise_mean_median(data))
    ELSE IF func = "iqr"
    THEN Return(Array1([i \in DOMAIN data.v |-> noise_std_iqr(data.v[i])]))
    ELSE IF func = "diffcov"
    THEN Return(Array1([i \in DOMAIN data.v |-> noise_std_diffcov(data.v[i])]))
    ELSE Raise("TypeError", "'NoneType' object is not callable")

\* noise_mean
noise_mean(data, method) ==
    IF ~get_mean_method(method).ok THEN get_mean_method(method)
    ELSE CallEstimator(get_mean_method(method).val, data)

\* noise_std
noise_std(data, method) ==
    IF ~get_std_method(method).ok THEN get_std_method(method)
    ELSE CallEstimator(get_std_method(method).val, data)

-----------------------------------------------------------------------------
(* snr.py: snratio, one action per statement or group of statements.       *)

\* np.fft.rfft along the last axis: the spectrum of each row, kept as the
\* rows it is the transform of; n bins in, n // 2 + 1 bins out
rfft(a) == [cls |-> "spectrum", of |-> a.v, bins |-> LastAxis(a) \div 2 + 1]

\* Circular convolution of two rows of the same length:
\* out[k] = sum over j of a[j] * b[(k - j) mod n], indices from 0
CircularConvolution(a, b) ==
    LET n == Len(a)
    IN [k \in 1..n |->
            SumSeq([j \in 1..n |-> Mul(a[j], b[((k - j) % n) + 1])])]

\* np.fft.irfft(fa * fb) with fa of shape (nprof, 1, bins) and fb of shape
\* (1, ntemp, bins): 2 * (bins - 1) bins out; by the convolution theorem
\* the row for (i, j) is the circular convolution of rows i and j
irfft_product(fa, fb) ==
    LET n == 2 * (fa.bins - 1)
        nprof == Len(fa.of)
        ntemp == Len(fb.of)
    IN IF n < 1
       THEN Raise("ValueError", "Invalid number of FFT data points (0) specified.")
       ELSE Return(Array("float32", <<nprof, ntemp, n>>,
                [r \in 1..(nprof * ntemp) |->
                    CircularConvolution(fa.of[((r - 1) \div ntemp) + 1],
                                        fb.of[((r - 1) % ntemp) + 1])]))

\* snr[:, :, :p]
Unpad(a, p) ==
    [a EXCEPT !.shape[3] = p, !.v = [r \in DOMAIN a.v |-> SubSeq(a.v[r], 1, p)]]

\* x - mean.reshape(-1, 1)) / std.reshape(-1, 1)
Normalised(a, mu, sigma) ==
    [a EXCEPT !.v = [i \in DOMAIN a.v |->
        [k \in DOMAIN a.v[i] |-> Div(Sub(a.v[i][k], Vals(mu)[i]), Vals(sigma)[i])]]]

\* argmax that returns the last index of the largest entry
Argmax_last(q) ==
    IF \E i \in DOMAIN q : IsNaN(q[i])
    THEN Max({i \in DOMAIN q : IsNaN(q[i])}) - 1
    ELSE Max({i \in DOMAIN q : \A j \in DOMAIN q : ~Less(q[i], q[j])}) - 1

\* q.argmax(): the first index (from 0) of the largest entry, a nan being
\* larger than everything
Argmax(q) ==
    IF \E i \in DOMAIN q : IsNaN(q[i])
    THEN Min({i \in DOMAIN q : IsNaN(q[i])}) - 1
    ELSE Min({i \in DOMAIN q : \A j \in DOMAIN q : ~Less(q[i], q[j])}) - 1

RECURSIVE Flatten(_)
Flatten(rows) == IF rows = <<>> THEN <<>> ELSE rows[1] \o Flatten(Tail(rows))

\* The rows of snr[iprof]
Plane(a, iprof) ==
    LET ntemp == a.shape[2]
    IN [j \in 1..ntemp |-> a.v[(iprof - 1) * ntemp + j]]

\* np.unravel_index(best, shape) for a 2-D shape
unravel_index(best, shape) == <<best \div shape[2], best % shape[2]>>

\* Lines 96-97: itemp, ibin for profile iprof of the S/N map a
BestPair(a, iprof) ==
    unravel_index(Argmax(Flatten(Plane(a, iprof))), <<a.shape[2], a.shape[3]>>)

\* The loop body with np.roll(models[iprof], ibin): the reference bin of the
\* template is left out of the shift
ProfileModel_shift_to_start(temp, p, a, mu, sigma, iprof) ==
    LET snr_plane == Plane(a, iprof)
        best == Argmax(Flatten(snr_plane))
        itemp == best \div p
        ibin == best % p
        best_snr == snr_plane[itemp + 1][ibin + 1]
        best_template == IF IsTemplateBank(temp) THEN temp.items[itemp + 1] ELSE temp
        amp == Mul(Vals(sigma)[iprof], best_snr)
        flat == [k \in 1..p |-> Vals(mu)[iprof]]
    IN IF size(best_template) > p
       THEN Raise("ValueError", "operands could not be broadcast together")
       ELSE Return(Roll([k \in 1..p |->
                IF k <= size(best_template)
                THEN Add(flat[k], Mul(Vals(best_template.data)[k], amp))
                ELSE flat[k]], ibin))

\* The body of the loop over profiles (iprof from 1): the model of one profile
ProfileModel(temp, p, a, mu, sigma, iprof) ==
    LET snr_plane == Plane(a, iprof)
        best == Argmax(Flatten(snr_plane))
        itemp == best \div p
        ibin == best % p
        best_snr == snr_plane[itemp + 1][ibin + 1]
        best_template == IF IsTemplateBank(temp) THEN temp.items[itemp + 1] ELSE temp
        amp == Mul(Vals(sigma)[iprof], best_snr)
        flat == [k \in 1..p |-> Vals(mu)[iprof]]
        shift == ibin - best_template.refbin
    IN IF size(best_template) > p
       THEN Raise("ValueError", "operands could not be broadcast together")
       ELSE Return(Roll([k \in 1..p |->
                IF k <= size(best_template)
                THEN Add(flat[k], Mul(Vals(best_template.data)[k], amp))
                ELSE flat[k]], shift))

\* The first profile whose model cannot be built, 0 if there is none
RECURSIVE FirstFailure(_, _, _, _, _, _)
FirstFailure(temp, p, a, mu, sigma, iprof) ==
    IF iprof > a.shape[1] THEN 0
    ELSE IF ~ProfileModel(temp, p, a, mu, sigma, iprof).ok THEN iprof
    ELSE FirstFailure(temp, p, a, mu, sigma, iprof + 1)

\* isinstance(temp, (Template, TemplateBank)) that lets every object through
isinstance_any_object(temp) == TRUE

\* isinstance(temp, (Template, TemplateBank))
isinstance_Template_or_TemplateBank(temp) == IsTemplate(temp) \/ IsTemplateBank(temp)

\* The objects len() accepts
HasLen(obj) == obj.cls \in {"TemplateBank", "list"}

\* The statement that raises ends the call
Fail(exc) ==
    /\ pc' = "raised"
    /\ result' = exc
    /\ UNCHANGED <<args, locals, done>>

\* Lines 45-58: the checks of data and temp, and the reshape to 2-D
CheckArgs ==
    /\ pc = "check"
    /\ UNCHANGED <<tvars, bvars, cvars, nvars, hvars, fvars>>
    /\ LET data == args.data
           temp == args.temp
       IN IF ~IsArray(data)
          THEN Fail(Raise("ValueError", "data must be a numpy array"))
          ELSE IF Ndim(data) \notin {1, 2}
          THEN Fail(Raise("ValueError", "data must be have 1 or 2 dimensions"))
          ELSE IF ~isinstance_Template_or_TemplateBank(temp)
          THEN Fail(Raise("ValueError", "temp must be a Template or TemplateBank"))
          ELSE IF LastAxis(data) = 0
          THEN Fail(Raise("ValueError", "cannot reshape array of size 0 into shape (0)"))
          ELSE IF ~IsTemplate(temp) /\ ~HasLen(temp)
          THEN Fail(Raise("TypeError", "object has no len()"))
          ELSE /\ x' = Array2(data.v, LastAxis(data))
               /\ pc' = "mean"
               /\ UNCHANGED <<args, mean, std, fx, y, snr, result, done>>

\* np.zeros(n) in the place of np.full(n, value)
full_of_zeros(n, value) == Array1([i \in 1..n |-> Zero])

\* np.full(n, value) for a Python float
full(n, value) == Array1([i \in 1..n |-> Num(value.val)])

\* Lines 62-67
NoiseMean ==
    /\ pc = "mean"
    /\ UNCHANGED <<tvars, bvars, cvars, nvars, hvars, fvars>>
    /\ LET mu == args.mu
           nprof == x.shape[1]
           est == noise_mean(args.data, mu.str)
       IN IF mu.cls = "float"
          THEN /\ mean' = full(nprof, mu)
               /\ pc' = "std"
               /\ UNCHANGED <<args, x, std, fx, y, snr, result, done>>
          ELSE IF mu.cls = "str"
          THEN IF est.ok
               THEN /\ mean' = est.val
                    /\ done' = Append(done, "noise_mean")
                    /\ pc' = "std"
                    /\ UNCHANGED <<args, x, std, fx, y, snr, result>>
               ELSE Fail(est)
          ELSE Fail(Raise("ValueError", "mu must be either a valid noise mean estimation method name, or a float"))

\* Lines 69-74
NoiseStd ==
    /\ pc = "std"
    /\ UNCHANGED <<tvars, bvars, cvars, nvars, hvars, fvars>>
    /\ LET sigma == args.sigma
           nprof == x.shape[1]
           est == noise_std(args.data, sigma.str)
       IN IF sigma.cls = "float"
          THEN /\ std' = full(nprof, sigma)
               /\ pc' = "normalise"
               /\ UNCHANGED <<args, x, mean, fx, y, snr, result, done>>
          ELSE IF sigma.cls = "str"
          THEN IF est.ok
               THEN /\ std' = est.val
                    /\ done' = Append(done, "noise_std")
                    /\ pc' = "normalise"
                    /\ UNCHANGED <<args, x, mean, fx, y, snr, result>>
               ELSE Fail(est)
          ELSE Fail(Raise("ValueError", "sigma must be either a valid noise stddev estimation method name, or a float"))

\* Line 77
Normalise ==
    /\ pc = "normalise"
    /\ UNCHANGED <<tvars, bvars, cvars, nvars, hvars, fvars>>
    /\ x' = Normalised(x, mean, std)
    /\ done' = Append(done, "normalise")
    /\ pc' = "pad"
    /\ UNCHANGED <<args, mean, std, fx, y, snr, result>>

\* Line 78
Pad ==
    /\ pc = "pad"
    /\ UNCHANGED <<tvars, bvars, cvars, nvars, hvars, fvars>>
    /\ x' = AsType(cpadpow2(x).val, "float32")
    /\ done' = Append(done, "cpadpow2")
    /\ pc' = "rfft"
    /\ UNCHANGED <<args, mean, std, fx, y, snr, result>>

\* Line 81
TransformData ==
    /\ pc = "rfft"
    /\ UNCHANGED <<tvars, bvars, cvars, nvars, hvars, fvars>>
    /\ fx' = rfft(x)
    /\ done' = Append(done, "rfft")
    /\ pc' = "prepare"
    /\ UNCHANGED <<args, x, mean, std, y, snr, result>>

\* Line 85
PrepareTemplates ==
    /\ pc = "prepare"
    /\ UNCHANGED <<tvars, bvars, cvars, nvars, hvars, fvars>>
    /\ LET temp == args.temp
           n == LastAxis(x)
           prep == IF IsTemplate(temp) THEN prepared_data(temp, n)
                   ELSE IF IsTemplateBank(temp) THEN bank_prepared_data(temp, n)
                   ELSE Raise("AttributeError", "object has no attribute 'prepared_data'")
       IN IF prep.ok
          THEN /\ y' = AsType(prep.val, "float32")
               /\ done' = Append(done, "prepared_data")
               /\ pc' = "correlate"
               /\ UNCHANGED <<args, x, mean, std, fx, snr, result>>
          ELSE Fail(prep)

\* Lines 86-90
Correlate ==
    /\ pc = "correlate"
    /\ UNCHANGED <<tvars, bvars, cvars, nvars, hvars, fvars>>
    /\ LET fy == rfft(y)
           out == irfft_product(fx, fy)
       IN IF out.ok
          THEN /\ snr' = Unpad(out.val, LastAxis(args.data))
               /\ done' = done \o <<"rfft", "irfft">>
               /\ pc' = "models"
               /\ UNCHANGED <<args, x, mean, std, fx, y, result>>
          ELSE /\ pc' = "raised"
               /\ result' = out
               /\ done' = Append(done, "rfft")
               /\ UNCHANGED <<args, locals>>

\* Lines 93-110
Models ==
    /\ pc = "models"
    /\ UNCHANGED <<tvars, bvars, cvars, nvars, hvars, fvars>>
    /\ LET temp == args.temp
           p == LastAxis(args.data)
           nprof == x.shape[1]
           bad == FirstFailure(temp, p, snr, mean, std, 1)
           models == Array("float64", <<nprof, p>>,
                [i \in 1..nprof |-> ProfileModel(temp, p, snr, mean, std, i).val])
       IN IF bad = 0
          THEN /\ result' = Return([snr |-> snr, mean |-> mean, std |-> std,
                                    models |-> models])
               /\ done' = Append(done, "models")
               /\ pc' = "done"
               /\ UNCHANGED <<args, locals>>
          ELSE Fail(ProfileModel(temp, p, snr, mean, std, bad))

\* snratio as a function of its arguments: what the call returns or raises
\* and the line of snr.py it ends at.  Each intermediate array is computed
\* once, as the single element of a set, and handed on as a value.
Ends(outcome, line) == [out |-> outcome, line |-> line]
Only(S) == CHOOSE e \in S : TRUE

\* Lines 62-67
snratio_mean(data, nprof, mu) ==
    IF mu.cls = "float" THEN Ends(Return(full(nprof, mu)), 63)
    ELSE IF mu.cls = "str" THEN Ends(noise_mean(data, mu.str), 65)
    ELSE Ends(Raise("ValueError", "mu must be either a valid noise mean estimation method name, or a float"), 67)

\* Lines 69-74
snratio_std(data, nprof, sigma) ==
    IF sigma.cls = "float" THEN Ends(Return(full(nprof, sigma)), 70)
    ELSE IF sigma.cls = "str" THEN Ends(noise_std(data, sigma.str), 72)
    ELSE Ends(Raise("ValueError", "sigma must be either a valid noise stddev estimation method name, or a float"), 74)

\* Line 85
snratio_prepared(temp, n) ==
    IF IsTemplate(temp) THEN prepared_data(temp, n)
    ELSE IF IsTemplateBank(temp) THEN bank_prepared_data(temp, n)
    ELSE Raise("AttributeError", "object has no attribute 'prepared_data'")

\* Lines 93-110, for the S/N map a
snratio_models(temp, p, a, mu, sigma) ==
    LET nprof == a.shape[1]
        bad == FirstFailure(temp, p, a, mu, sigma, 1)
    IN IF bad # 0
       THEN Ends(ProfileModel(temp, p, a, mu, sigma, bad), 106)
       ELSE Ends(Return([snr |-> a, mean |-> mu, std |-> sigma,
                         models |-> Array("float64", <<nprof, p>>,
                            [i \in 1..nprof |->
                                ProfileModel(temp, p, a, mu, sigma, i).val])]), 110)

\* Lines 77-110, for the mean and std of line 62-74
snratio_normalised(data, temp, mu, sigma) ==
    LET p == LastAxis(data)
    IN Only({
        IF ~prep.ok THEN Ends(prep, 85)
        ELSE Only({
            IF ~conv.ok THEN Ends(conv, 87)
            ELSE Only({snratio_models(temp, p, a, mu, sigma) : a \in {Unpad(conv.val, p)}})
            : conv \in {irfft_product(rfft(xp), rfft(AsType(prep.val, "float32")))}})
        : <<xp, prep>> \in
            {<<padded, snratio_prepared(temp, LastAxis(padded))>> :
                padded \in {AsType(cpadpow2(Normalised(Array2(data.v, p), mu, sigma)).val,
                                   "float32")}}})

snratio(data, temp, mu, sigma) ==
    IF ~IsArray(data)
    THEN Ends(Raise("ValueError", "data must be a numpy array"), 46)
    ELSE IF Ndim(data) \notin {1, 2}
    THEN Ends(Raise("ValueError", "data must be have 1 or 2 dimensions"), 49)
    ELSE IF ~isinstance_Template_or_TemplateBank(temp)
    THEN Ends(Raise("ValueError", "temp must be a Template or TemplateBank"), 52)
    ELSE IF LastAxis(data) = 0
    THEN Ends(Raise("ValueError", "cannot reshape array of size 0 into shape (0)"), 55)
    ELSE IF ~IsTemplate(temp) /\ ~HasLen(temp)
    THEN Ends(Raise("TypeError", "object has no len()"), 58)
    ELSE Only({
        IF ~mean1.out.ok THEN mean1
        ELSE Only({
            IF ~std1.out.ok THEN std1
            ELSE snratio_normalised(data, temp, mean1.out.val, std1.out.val)
            : std1 \in {snratio_std(data, Len(data.v), sigma)}})
        : mean1 \in {snratio_mean(data, Len(data.v), mu)}})

-----------------------------------------------------------------------------
(* Spec: one call of snratio, from its arguments to its return or raise.   *)

Profiles(p) == [1..p -> {Num(0), Num(1)}]
\* Asymmetric template data 1, 2, ..., w with the reference bin mid-way
Ramp(w) == Template(ramp(w), PyInt(w \div 2), "peak", "ramp", Dict({})).val
BoxcarBank(k) == TemplateBank(Iterable("list", [w \in 1..k |-> boxcar(PyInt(w)).val])).val

DataArgsSnr ==
    {Array1(row) : row \in UNION {Profiles(p) : p \in 0..MaxBins}}
    \cup {Array2(<<row, Reversed(row)>>, Len(row)) :
            row \in UNION {Profiles(p) : p \in 0..MaxBins}}
    \cup {Array("float64", <<1, 1, 1>>, <<<<Num(1)>>>>), List(<<Num(1)>>)}
TempArgs ==
    {boxcar(PyInt(w)).val : w \in 1..MaxTemp}
    \cup {Ramp(w) : w \in 2..MaxTemp}
    \cup {BoxcarBank(k) : k \in 2..MaxTemp}
    \cup {TemplateBank(Iterable("list", <<Ramp(2), boxcar(PyInt(1)).val>>)).val}
    \cup {Iterable("list", <<boxcar(PyInt(1)).val>>)}
MuArgs == {PyFloat(0), PyFloat(1), PyStr("median"), PyStr("mean"), PyInt(0)}
SigmaArgs == {PyFloat(1), PyFloat(2), PyStr("iqr"), PyStr("diffcov"), PyStr("std"), PyInt(1)}

Init ==
    /\ TemplateIdle /\ BankIdle /\ CpadIdle /\ NoiseIdle /\ BatchIdle /\ FrameIdle
    /\ pc = "check"
    /\ args \in [data : DataArgsSnr, temp : TempArgs, mu : MuArgs, sigma : SigmaArgs]
    /\ x = None /\ mean = None /\ std = None
    /\ fx = None /\ y = None /\ snr = None
    /\ result = Return(None)
    /\ done = <<>>

Next ==
    \/ CheckArgs
    \/ NoiseMean
    \/ NoiseStd
    \/ Normalise
    \/ Pad
    \/ TransformData
    \/ PrepareTemplates
    \/ Correlate
    \/ Models

Spec == Init /\ [][Next]_vars

-----------------------------------------------------------------------------
(* SpecPulse: one call of snratio on profiles with an alternating           *)
(* background, one of which carries a rectangular pulse (test_snratio.py).  *)

\* noise = np.zeros(size); noise[::2] = 1.0
Background(p) == [j \in 1..p |-> IF (j - 1) % 2 = 0 THEN Num(1) ELSE Num(0)]
\* data = noise.copy(); data[j0:j0+w] = amp
PulseProfile(p, j0, w, amp) ==
    [j \in 1..p |-> IF (j - 1) \in j0..(j0 + w - 1) THEN Num(amp) ELSE Background(p)[j]]
\* data[i0, j0:j0+w] = amp in a batch of nprof profiles
PulseBatch(nprof, i0, p, j0, w, amp) ==
    Array2([i \in 1..nprof |->
              IF i - 1 = i0 THEN PulseProfile(p, j0, w, amp) ELSE Background(p)], p)

\* The scenes: the pulse ends before the last bin (j0 + w < p)
Amplitudes == {2, MaxAmp}
Scenes ==
    {sc \in [nprof : 1..MaxProf, i0 : 0..(MaxProf - 1), p : 2..MaxBins,
             j0 : 0..(MaxBins - 2), w : 1..(MaxBins - 1), amp : Amplitudes] :
        sc.i0 < sc.nprof /\ sc.j0 + sc.w < sc.p}
SceneData(sc) == PulseBatch(sc.nprof, sc.i0, sc.p, sc.j0, sc.w, sc.amp)
PulseData ==
    {SceneData(sc) : sc \in Scenes}
    \cup {Array1(PulseProfile(sc.p, sc.j0, sc.w, sc.amp)) : sc \in {t \in Scenes : t.nprof = 1}}
PulseTemps ==
    {boxcar(PyInt(w)).val : w \in 1..MaxTemp} \cup {BoxcarBank(k) : k \in 2..MaxTemp}

InitPulse ==
    /\ TemplateIdle /\ BankIdle /\ CpadIdle /\ NoiseIdle /\ BatchIdle /\ FrameIdle
    /\ pc = "check"
    /\ args \in [data : PulseData, temp : PulseTemps,
                 mu : {PyFloat(0), PyStr("median")},
                 sigma : {PyFloat(1), PyFloat(2)}]
    /\ x = None /\ mean = None /\ std = None
    /\ fx = None /\ y = None /\ snr = None
    /\ result = Return(None)
    /\ done = <<>>

SpecPulse == InitPulse /\ [][Next]_vars

-----------------------------------------------------------------------------
(* SpecGauss: one call of snratio on a profile with a rectangular pulse of  *)
(* odd width w, with the template Template.gaussian(w) (test_snratio.py).   *)

OddWidths == {w \in 1..MaxPulse : w % 2 = 1}
\* The scenes: the profile holds the template, the pulse ends before the
\* last bin (i0 + w < p)
GaussScenes ==
    {sc \in [p : 2..MaxGaussBins, j0 : 0..(MaxGaussBins - 2), w : OddWidths,
             amp : Amplitudes] :
        /\ sc.j0 + sc.w < sc.p
        /\ size(gaussian(PyInt(sc.w)).val) <= sc.p}
GaussData ==
    {Array1(PulseProfile(sc.p, sc.j0, sc.w, sc.amp)) : sc \in GaussScenes}
    \cup {PulseBatch(2, 1, sc.p, sc.j0, sc.w, sc.amp) : sc \in GaussScenes}
GaussTemps == {gaussian(PyInt(w)).val : w \in OddWidths}

InitGauss ==
    /\ TemplateIdle /\ BankIdle /\ CpadIdle /\ NoiseIdle /\ BatchIdle /\ FrameIdle
    /\ pc = "check"
    /\ args \in [data : GaussData, temp : GaussTemps,
                 mu : {PyFloat(0), PyStr("median")},
                 sigma : {PyFloat(1), PyFloat(2)}]
    /\ x = None /\ mean = None /\ std = None
    /\ fx = None /\ y = None /\ snr = None
    /\ result = Return(None)
    /\ done = <<>>

SpecGauss == InitGauss /\ [][Next]_vars

-----------------------------------------------------------------------------
(* SpecBatch: a call of snratio on a batch of two profiles and, once it     *)
(* has ended, the call with the same arguments on one of the two profiles   *)
(* alone, as a 1-D array.                                                   *)

BatchData ==
    {Array2(<<first, second>>, p) :
        <<p, first, second>> \in
            UNION {{p} \X Profiles(p) \X Profiles(p) : p \in 2..MaxBins}}
BatchTemps == {boxcar(PyInt(2)).val, Ramp(3), BoxcarBank(MaxTemp)}

\* snratio(data[i], temp, mu, sigma) after snratio(data, temp, mu, sigma)
CallRowAlone ==
    /\ pc \in {"done", "raised"}
    /\ kept = None
    /\ UNCHANGED <<tvars, bvars, cvars, nvars, fvars>>
    /\ \E i \in 1..Len(args.data.v) :
        /\ kept' = [cls |-> "call", args |-> args, result |-> result, row |-> i]
        /\ args' = [args EXCEPT !.data = Array1(args.data.v[i])]
    /\ pc' = "check"
    /\ x' = None /\ mean' = None /\ std' = None
    /\ fx' = None /\ y' = None /\ snr' = None
    /\ result' = Return(None)
    /\ done' = <<>>

InitBatch ==
    /\ TemplateIdle /\ BankIdle /\ CpadIdle /\ NoiseIdle /\ BatchIdle /\ FrameIdle
    /\ pc = "check"
    /\ args \in [data : BatchData, temp : BatchTemps,
                 mu : {PyFloat(0), PyStr("median")},
                 sigma : {PyFloat(1), PyStr("iqr"), PyStr("diffcov")}]
    /\ x = None /\ mean = None /\ std = None
    /\ fx = None /\ y = None /\ snr = None
    /\ result = Return(None)
    /\ done = <<>>

NextBatch == Next \/ CallRowAlone
SpecBatch == InitBatch /\ [][NextBatch]_vars

-----------------------------------------------------------------------------
(* SpecTies: one call of snratio on a profile of zeros and ones with a     *)
(* bank in which two templates can reach the same S/N: boxcars of widths   *)
(* 1 and 4, whose samples are 1 and 1/2, or the same boxcar twice.         *)

BoxcarsOf(widths) ==
    TemplateBank(Iterable("list", [j \in DOMAIN widths |-> boxcar(PyInt(widths[j])).val])).val
TieData == {Array1(row) : row \in Profiles(MaxTieBins)}
TieTemps == {BoxcarsOf(<<1, 4>>), BoxcarsOf(<<1, 1>>)}

InitTies ==
    /\ TemplateIdle /\ BankIdle /\ CpadIdle /\ NoiseIdle /\ BatchIdle /\ FrameIdle
    /\ pc = "check"
    /\ args \in [data : TieData, temp : TieTemps,
                 mu : {PyFloat(0), PyStr("median")},
                 sigma : {PyFloat(1), PyStr("iqr")}]
    /\ x = None /\ mean = None /\ std = None
    /\ fx = None /\ y = None /\ snr = None
    /\ result = Return(None)
    /\ done = <<>>

SpecTies == InitTies /\ [][Next]_vars

-----------------------------------------------------------------------------
(* SpecStd: one call of snratio with each way of giving the standard       *)
(* deviation: a literal that is positive, zero or negative, or one of the  *)
(* two estimators, on profiles that are constant or not.                   *)

StdData ==
    {Array1(row) : row \in UNION {Profiles(p) : p \in 1..MaxBins}}
    \cup {Array2(<<row, Reversed(row)>>, Len(row)) :
            row \in UNION {Profiles(p) : p \in 1..MaxBins}}
StdArgs == {PyFloat(1), PyFloat(0), PyFloat(-1), PyStr("iqr"), PyStr("diffcov")}

InitStd ==
    /\ TemplateIdle /\ BankIdle /\ CpadIdle /\ NoiseIdle /\ BatchIdle /\ FrameIdle
    /\ pc = "check"
    /\ args \in [data : StdData, temp : {boxcar(PyInt(1)).val, BoxcarBank(2)},
                 mu : {PyFloat(0), PyStr("median")},
                 sigma : StdArgs]
    /\ x = None /\ mean = None /\ std = None
    /\ fx = None /\ y = None /\ snr = None
    /\ result = Return(None)
    /\ done = <<>>

SpecStd == InitStd /\ [][Next]_vars

-----------------------------------------------------------------------------
(* SpecNoise: the selection of an estimator by name, by a direct call of   *)
(* noise_mean or noise_std, or by a call of snratio up to its estimates.    *)

\* The names callers select an estimator by, registered or not
MethodNames == {"median", "iqr", "diffcov", "mean", "std", "diff", "IQR", ""}
NoiseData == {d \in DataArgsSnr : IsArray(d) /\ Ndim(d) \in {1, 2} /\ LastAxis(d) >= 1}

\* noise_mean(data, method)
NoiseMeanCall ==
    /\ ncall.op = "none" /\ pc = "idle"
    /\ UNCHANGED <<tvars, bvars, cvars, svars, hvars, fvars>>
    /\ \E data \in NoiseData, method \in MethodNames :
        /\ ncall' = [op |-> "noise_mean", data |-> data, method |-> method]
        /\ nret' = noise_mean(data, method)

\* noise_std(data, method)
NoiseStdCall ==
    /\ ncall.op = "none" /\ pc = "idle"
    /\ UNCHANGED <<tvars, bvars, cvars, svars, hvars, fvars>>
    /\ \E data \in NoiseData, method \in MethodNames :
        /\ ncall' = [op |-> "noise_std", data |-> data, method |-> method]
        /\ nret' = noise_std(data, method)

\* snratio(data, temp, mu, sigma) is entered
SnratioCall ==
    /\ ncall.op = "none" /\ pc = "idle"
    /\ UNCHANGED <<tvars, bvars, cvars, nvars, hvars, fvars>>
    /\ UNCHANGED <<locals, result, done>>
    /\ pc' = "check"
    /\ args' \in [data : NoiseData, temp : {boxcar(PyInt(1)).val},
                  mu : {PyFloat(0)} \cup {PyStr(n) : n \in MethodNames},
                  sigma : {PyFloat(1)} \cup {PyStr(n) : n \in MethodNames}]

InitNoise == TemplateIdle /\ BankIdle /\ CpadIdle /\ SnrIdle /\ NoiseIdle /\ BatchIdle /\ FrameIdle
NextNoise ==
    \/ NoiseMeanCall
    \/ NoiseStdCall
    \/ SnratioCall
    \/ CheckArgs
    \/ NoiseMean
    \/ NoiseStd
SpecNoise == InitNoise /\ [][NextNoise]_vars

-----------------------------------------------------------------------------
(* Memory.  A numpy expression either allocates a new array or returns a   *)
(* view that shares the buffer of its operand (reshape, a slice, a row of  *)
(* a 2-D array, the data property of a Template).  An assignment to a name *)
(* binds the name; an assignment to a subscript and an augmented           *)
(* assignment write into the buffer the name is bound to, and through it   *)
(* into every object that shares the buffer.  A function is held here as   *)
(* the list of its statements that bind or write arrays, each with its     *)
(* line.  The statements of a loop, and those of a function it calls,      *)
(* carry the line of the loop's head or of the call too: they may have run *)
(* once that line has been reached.                                        *)

\* lhs = <a view of what src names>
View(line, lhs, src) ==
    [line |-> line, head |-> line, kind |-> "view", lhs |-> lhs, src |-> src,
     val |-> None]
\* lhs = <an array or object the expression allocates>
New(line, lhs) ==
    [line |-> line, head |-> line, kind |-> "new", lhs |-> lhs, src |-> lhs,
     val |-> None]
\* lhs[...] = val, lhs += val, lhs.attr = val
Store(line, lhs, val) ==
    [line |-> line, head |-> line, kind |-> "store", lhs |-> lhs, src |-> lhs,
     val |-> val]
\* The statements body, inside the loop or the call that starts at line head
Within(head, body) == [k \in DOMAIN body |-> [body[k] EXCEPT !.head = head]]

\* The buffer a name is bound to after the first k statements of prog: a
\* parameter is bound to the caller's object of that name until the function
\* binds the name again; what the function allocates is "local"
RECURSIVE BufferOf(_, _, _)
BufferOf(prog, k, name) ==
    IF k = 0 THEN name
    ELSE IF prog[k].kind = "store" \/ prog[k].lhs # name
    THEN BufferOf(prog, k - 1, name)
    ELSE IF prog[k].kind = "new" THEN "local"
    ELSE BufferOf(prog, k - 1, prog[k].src)

\* The statements of prog that ran in a call that ended as ends tells: all
\* of them when it returned, those before the raising line when it raised
Ran(prog, ends) ==
    LET ran == {k \in DOMAIN prog : ends.out.ok \/ prog[k].head < ends.line}
    IN [k \in 1..Cardinality(ran) |-> prog[k]]

\* An array or a Template after val has been written over its values
Overwritten(obj, val) ==
    IF IsArray(obj) THEN [obj EXCEPT !.v = val.v] ELSE [obj EXCEPT !.data = val]

\* The caller's objects objs, a record by parameter name, after the first k
\* statements of prog
RECURSIVE Stored(_, _, _)
Stored(prog, k, objs) ==
    IF k = 0 THEN objs
    ELSE LET before == Stored(prog, k - 1, objs)
             buf == BufferOf(prog, k - 1, prog[k].lhs)
         IN IF prog[k].kind = "store" /\ buf \in DOMAIN objs
            THEN [before EXCEPT ![buf] = Overwritten(before[buf], prog[k].val)]
            ELSE before

\* The caller's objects after a call of the function prog that ended as ends
After(prog, ends, objs) ==
    Only({Stored(ran, Len(ran), objs) : ran \in {Ran(prog, ends)}})

\* Line 77 of snr.py written in place: x -= mean.reshape(-1, 1) and
\* x /= std.reshape(-1, 1), while x is the view of data that line 55 made
normalise_in_place(data, ends) ==
    Store(77, "x",
          IF ends.out.ok
          THEN Normalised(Array2(data.v, LastAxis(data)),
                          ends.out.val.mean, ends.out.val.std)
          ELSE data)

\* Line 77 of snr.py: the quotient is a new array, and x is bound to it
normalise_rebinding(data, ends) == New(77, "x")

\* snr.py, snratio
snratio_statements(data, temp, mu, sigma, ends) ==
    LET models == IF ends.out.ok THEN ends.out.val.models ELSE None
    IN <<View(55, "x", "data"),                \* x = data.reshape(-1, p)
         IF mu.cls = "float"
         THEN New(63, "mean")                  \* np.full(nprof, mu)
         ELSE New(65, "mean"),                 \* noise_mean(data, ...).reshape(nprof)
         IF sigma.cls = "float"
         THEN New(70, "std")                   \* np.full(nprof, sigma)
         ELSE New(72, "std"),                  \* noise_std(data, ...).reshape(nprof)
         normalise_rebinding(data, ends),      \* x = (x - mean...) / std...
         New(78, "x"),                         \* x = cpadpow2(x).astype(np.float32)
         New(81, "fx"),                        \* np.fft.rfft(x).reshape(...)
         New(85, "y"),                         \* temp.prepared_data(...).astype(...)
         New(86, "fy"),                        \* np.fft.rfft(y).reshape(...)
         New(87, "snr"),                       \* np.fft.irfft(fx * fy)
         View(90, "snr", "snr"),               \* snr = snr[:, :, :p]
         New(93, "models")>>                   \* np.zeros(shape=(nprof, p))
       \o Within(95,
       <<View(96, "snr_plane", "snr"),         \* snr_plane = snr[iprof]
         View(101, "best_template", "temp"),   \* temp[itemp], or temp (line 103)
         Store(105, "models", models),         \* models[iprof] = mean[iprof]
         New(106, "scaled"),                   \* best_template.data * std[iprof] * best_snr
         Store(106, "models", models),         \* models[iprof, :size] += ...
         New(108, "rolled"),                   \* np.roll(models[iprof], shift)
         Store(108, "models", models)>>)       \* models[iprof] = ...

\* noisestats.py, noise_mean and the estimator it calls
noise_mean_statements ==
    <<View(99, "x", "data")>>                  \* func(data)
    \o Within(99,
    <<New(47, "median")>>)                     \* np.median(x, axis=-1)

\* noisestats.py, noise_std and the estimator it calls
noise_std_statements(method) ==
    IF method = "iqr"
    THEN <<View(127, "x", "data")>>            \* func(data)
         \o Within(127,
         <<New(11, "stats"),                   \* np.percentile(x, (25, 75), axis=-1)
           New(12, "sigma")>>)                 \* (stats[1] - stats[0]) / 1.3489...
    ELSE <<View(127, "x", "data")>>            \* func(data)
         \o Within(127,
         <<View(41, "line", "x"),              \* for line in x (or x, line 39)
           New(33, "y"),                       \* np.diff(line)
           View(34, "y0", "y"),                \* y[:-1]
           View(34, "y1", "y"),                \* y[1:]
           New(34, "c"),                       \* np.cov(y[:-1], y[1:])
           New(36, "sw"),                      \* sw2 ** 0.5
           New(41, "out")>>)                   \* np.asarray([...])

\* cpad.py, cpadpow2
cpadpow2_statements ==
    <<New(25, "out")>>                         \* np.pad(x, pad_width, mode='wrap')

\* template.py, normalise and Template.__init__
Template_statements ==
    <<New(56, "self")>>                        \* the object under construction
    \o Within(70,
    <<New(18, "sqsum"),                        \* (data ** 2).sum()
      New(19, "normalised")>>)                 \* data * sqsum**-0.5
    \o <<Store(70, "self", None),              \* self._data = normalise(data)
      Store(71, "self", None),                 \* self._refbin = int(refbin)
      Store(72, "self", None),                 \* self._reference = str(reference)
      Store(73, "self", None),                 \* self._kind = str(kind)
      New(74, "params"),                       \* dict(shape_params)
      Store(74, "self", None)>>                \* self._shape_params = ...

\* template.py, Template.prepared_data
prepared_data_statements ==
    <<View(136, "data", "self"),               \* self.data
      New(136, "x"),                           \* np.pad(self.data, ...)
      New(143, "x"),                           \* np.roll(x, -self.refbin)
      View(148, "reversed", "x"),              \* x[::-1]
      New(148, "x"),                           \* np.roll(x[::-1], 1)
      New(149, "out")>>                        \* x.astype(np.float32)

\* template.py, TemplateBank.prepared_data
bank_prepared_data_statements ==
    Within(325,
    <<View(325, "t", "self"),                  \* for t in self
      New(325, "prepared")>>)                  \* t.prepared_data(n)
    \o <<New(325, "out")>>                     \* np.asarray([...])


-----------------------------------------------------------------------------
(* SpecFrame: a caller holds a data array and a Template or TemplateBank   *)
(* and passes them to one of the functions of the library; prepared_data   *)
(* may then be called once more with the same argument.  Each call leaves  *)
(* the caller's objects as the statements that ran leave them.             *)

FrameData ==
    {Array1(row) : row \in UNION {Profiles(p) : p \in 1..MaxBins}}
    \cup {Array2(<<row, Reversed(row)>>, Len(row)) :
            row \in UNION {Profiles(p) : p \in 1..MaxBins}}
FrameTemps == {boxcar(PyInt(2)).val, Ramp(3), BoxcarBank(2), BoxcarBank(MaxTemp)}
FrameMu == {PyFloat(0), PyStr("median"), PyStr("mean")}
FrameSigma == {PyFloat(1), PyStr("iqr"), PyStr("diffcov"), PyInt(1)}

InitFrame ==
    /\ TemplateIdle /\ BankIdle /\ CpadIdle /\ SnrIdle /\ NoiseIdle /\ BatchIdle
    /\ held \in [data : FrameData, temp : FrameTemps]
    /\ fcall = [op |-> "none"]
    /\ fret = Return(None)

\* snratio(data, temp, mu, sigma)
FrameSnratio ==
    /\ fcall.op = "none"
    /\ UNCHANGED <<tvars, bvars, cvars, svars, nvars, hvars>>
    /\ \E mu \in FrameMu, sigma \in FrameSigma :
        \E ends \in {snratio(held.data, held.temp, mu, sigma)} :
            /\ fcall' = [op |-> "snratio", mu |-> mu, sigma |-> sigma]
            /\ fret' = ends.out
            /\ held' = After(snratio_statements(held.data, held.temp, mu, sigma, ends),
                             ends, held)

\* noise_mean(data, method)
FrameNoiseMean ==
    /\ fcall.op = "none"
    /\ UNCHANGED <<tvars, bvars, cvars, svars, nvars, hvars>>
    /\ \E method \in {"median", "mean"} :
        \E r \in {noise_mean(held.data, method)} :
            /\ fcall' = [op |-> "noise_mean", method |-> method]
            /\ fret' = r
            /\ held' = After(noise_mean_statements,
                             Ends(r, IF r.ok THEN 99 ELSE 98), held)

\* noise_std(data, method)
FrameNoiseStd ==
    /\ fcall.op = "none"
    /\ UNCHANGED <<tvars, bvars, cvars, svars, nvars, hvars>>
    /\ \E method \in {"iqr", "diffcov", "std"} :
        \E r \in {noise_std(held.data, method)} :
            /\ fcall' = [op |-> "noise_std", method |-> method]
            /\ fret' = r
            /\ held' = After(noise_std_statements(method),
                             Ends(r, IF r.ok THEN 127 ELSE 126), held)

\* cpadpow2(data)
FrameCpad ==
    /\ fcall.op = "none"
    /\ UNCHANGED <<tvars, bvars, cvars, svars, nvars, hvars>>
    /\ \E r \in {cpadpow2(held.data)} :
        /\ fcall' = [op |-> "cpadpow2"]
        /\ fret' = r
        /\ held' = [held EXCEPT
                      !.data = After(cpadpow2_statements,
                                     Ends(r, IF r.ok THEN 25 ELSE 23),
                                     [x |-> held.data]).x]

\* Template(data, refbin)
FrameConstruct ==
    /\ fcall.op = "none"
    /\ UNCHANGED <<tvars, bvars, cvars, svars, nvars, hvars>>
    /\ \E refbin \in {PyInt(0), PyInt(MaxBins)} :
        \E r \in {Template(held.data, refbin, "start", "undefined", Dict({}))} :
            /\ fcall' = [op |-> "Template", refbin |-> refbin]
            /\ fret' = r
            /\ held' = After(Template_statements,
                             Ends(r, IF r.ok THEN 74 ELSE 59), held)

\* temp.prepared_data(n) for a Template (j = 0), temp[j - 1].prepared_data(n)
\* for a TemplateBank; nth tells the call that repeats the one before it
FramePreparedData ==
    /\ UNCHANGED <<tvars, bvars, cvars, svars, nvars, hvars>>
    /\ \E j \in 0..MaxTemp, n \in 0..(MaxTemp + 1) :
        /\ \/ fcall.op = "none"
           \/ fcall.op = "prepared_data" /\ fcall.nth = 1
                /\ fcall.j = j /\ fcall.n = n
        /\ IF j = 0 THEN IsTemplate(held.temp)
           ELSE IsTemplateBank(held.temp) /\ j <= len(held.temp)
        /\ \E t \in {IF j = 0 THEN held.temp ELSE held.temp.items[j]} :
            \E r \in {prepared_data(t, n)} :
            \E self \in {After(prepared_data_statements,
                               Ends(r, IF r.ok THEN 149 ELSE 131),
                               [self |-> t]).self} :
                /\ fcall' = [op |-> "prepared_data", j |-> j, n |-> n,
                             nth |-> IF fcall.op = "prepared_data" THEN 2 ELSE 1]
                /\ fret' = r
                /\ held' = IF j = 0 THEN [held EXCEPT !.temp = self]
                           ELSE [held EXCEPT !.temp.items[j] = self]

\* temp.prepared_data(n) for a TemplateBank
FrameBankPreparedData ==
    /\ fcall.op = "none"
    /\ UNCHANGED <<tvars, bvars, cvars, svars, nvars, hvars>>
    /\ IsTemplateBank(held.temp)
    /\ \E n \in 0..(MaxTemp + 1) :
        \E r \in {bank_prepared_data(held.temp, n)} :
            /\ fcall' = [op |-> "bank.prepared_data", n |-> n]
            /\ fret' = r
            /\ held' = [held EXCEPT
                 !.temp = After(bank_prepared_data_statements, Ends(r, 325),
                                [self |-> held.temp]).self]

NextFrame ==
    \/ FrameSnratio
    \/ FrameNoiseMean
    \/ FrameNoiseStd
    \/ FrameCpad
    \/ FrameConstruct
    \/ FramePreparedData
    \/ FrameBankPreparedData
SpecFrame == InitFrame /\ [][NextFrame]_vars

-----------------------------------------------------------------------------
(* Properties of Template (checked under SpecTemplate).                    *)

\* The normalised template data followed by zeros up to length n
ZeroExtended(t, n) ==
    [i \in 1..n |-> IF i <= size(t) THEN Vals(t.data)[i] ELSE Zero]
\* How many entries of q equal e
Count(q, e) == Cardinality({i \in DOMAIN q : q[i] = e})
\* prep[k] = z[(r - k) mod n], indices from 0
IsAlignedReversal(prep, t, n) ==
    /\ Len(prep) = n
    /\ \A k \in 0..(n - 1) :
        prep[k + 1] = ZeroExtended(t, n)[((t.refbin - k) % n) + 1]

\* C3: for n >= size, prepared_data(n) has length exactly n and
\* prep[k] = z[(r - k) mod n] with z the template data followed by n - size
\* zeros; so prep[0] = data[r], prep[n-1] = data[r+1] when r + 1 < size, and
\* prep is a rearrangement of data and n - size zeros, with the same sum of
\* squares.
C3_PreparedDataIsAlignedReversal ==
    (tcall.op = "prepared_data" /\ tcall.n >= size(tmpl)) =>
        /\ tret.ok
        /\ tret.val.shape = <<tcall.n>>
        /\ LET n == tcall.n
               r == tmpl.refbin
               data == Vals(tmpl.data)
               prep == Vals(tret.val)
           IN /\ IsAlignedReversal(prep, tmpl, n)
              /\ prep[1] = data[r + 1]
              /\ (r + 1 < size(tmpl) => prep[n] = data[r + 2])
              /\ \A e \in {prep[i] : i \in DOMAIN prep} \cup {Zero} :
                    Count(prep, e) =
                        Count(data, e) + (IF e = Zero THEN n - size(tmpl) ELSE 0)
              /\ SumSq(prep) = SumSq(data)

C3_Witness ==
    /\ tcall.op = "prepared_data"
    /\ tret.ok
    /\ tcall.n > size(tmpl)
    /\ tmpl.refbin > 0
    /\ tmpl.refbin + 1 < size(tmpl)
    /\ Vals(tmpl.data)[tmpl.refbin + 1] # Vals(tmpl.data)[tmpl.refbin + 2]
    /\ Vals(tmpl.data)[tmpl.refbin] # Zero

\* C6: every Template the constructor returns has data with sum of squares
\* 1, equal to the input divided by the square root of the input's sum of
\* squares, and 0 <= refbin < size.
C6_StoredDataHasUnitSquareSum ==
    (tcall.op = "Template" /\ tret.ok) =>
        LET in == Vals(tcall.data)
            data == Vals(tmpl.data)
        IN /\ SumSq(data) = One
           /\ Len(data) = Len(in)
           /\ \A i \in DOMAIN data : data[i] = Mul(in[i], RSqrt(SumSq(in)))
           /\ 0 <= tmpl.refbin /\ tmpl.refbin < size(tmpl)

\* The same for input data that is not all zeros
C6_HoldsForNonZeroData ==
    (tcall.op = "Template" /\ tret.ok /\ SumSq(Vals(tcall.data)) # Zero) =>
        LET in == Vals(tcall.data)
            data == Vals(tmpl.data)
        IN /\ SumSq(data) = One
           /\ Len(data) = Len(in)
           /\ \A i \in DOMAIN data :
                Mul(Mul(data[i], data[i]), SumSq(in)) = Mul(in[i], in[i])
           /\ \A i \in DOMAIN data : Sign(data[i].n) = Sign(in[i].n)
           /\ 0 <= tmpl.refbin /\ tmpl.refbin < size(tmpl)

\* A one-dimensional, non-empty sequence of numbers: an array or a list
IsSequence1D(data) ==
    (data.cls = "list" \/ (IsArray(data) /\ Ndim(data) = 1)) /\ Len(data.v[1]) > 0
StoresAsGiven ==
    /\ tmpl.refbin = tcall.refbin.val
    /\ tmpl.reference = tcall.meta.reference
    /\ tmpl.kind = tcall.meta.kind
    /\ tmpl.shape_params = tcall.meta.shape_params

\* C9 as stated: construction fails whenever data is empty, not
\* one-dimensional or refbin is outside [0, size), and succeeds for every
\* one-dimensional non-empty numeric sequence with an integer refbin in
\* [0, size), storing refbin, reference, kind and shape_params as given.
C9_AcceptsEverySequence ==
    tcall.op = "Template" =>
        LET data == tcall.data
            n == Len(data.v[1])
            inrange == 0 <= tcall.refbin.val /\ tcall.refbin.val < n
        IN /\ (n = 0 \/ ~IsSequence1D(data) \/ ~inrange) => (~tret.ok /\ tmpl = None)
           /\ (IsSequence1D(data) /\ tcall.refbin.cls = "int" /\ inrange) =>
                (tret.ok /\ StoresAsGiven)

\* C9, amended: construction succeeds exactly for a one-dimensional,
\* non-empty numpy array with a Python int refbin in [0, size); it then
\* stores refbin, reference, kind and shape_params as given, and otherwise
\* raises ValueError and produces no Template.
C9_AcceptsExactlyArrays ==
    tcall.op = "Template" =>
        LET data == tcall.data
            n == Len(data.v[1])
            inrange == 0 <= tcall.refbin.val /\ tcall.refbin.val < n
        IN /\ tret.ok <=> (/\ IsArray(data) /\ Ndim(data) = 1 /\ n > 0
                           /\ tcall.refbin.cls = "int" /\ inrange)
           /\ tret.ok => (tmpl = tret.val /\ IsTemplate(tmpl) /\ StoresAsGiven
                          /\ size(tmpl) = n)
           /\ ~tret.ok => (tmpl = None /\ tret.exc.type = "ValueError")

C9_Witness ==
    /\ tcall.op = "Template"
    /\ tret.ok
    /\ tmpl.refbin = size(tmpl) - 1
    /\ tmpl.refbin > 0
    /\ tmpl.kind = "custom"

\* C10: for a positive integer w, boxcar(w) is a Template of size w with
\* refbin 0, reference 'start' and w equal entries w^(-1/2), whose squares
\* sum to 1; for any other w it raises and returns no Template.
C10_BoxcarIsFlatUnitEnergy ==
    tcall.op = "boxcar" =>
        LET w == tcall.w
        IN /\ tret.ok <=> (w.cls = "int" /\ w.val > 0)
           /\ tret.ok =>
                /\ tmpl = tret.val /\ IsTemplate(tmpl)
                /\ size(tmpl) = w.val
                /\ Len(Vals(tmpl.data)) = w.val
                /\ tmpl.refbin = 0
                /\ tmpl.reference = "start"
                /\ \A i \in 1..w.val :
                    /\ Vals(tmpl.data)[i].n > 0
                    /\ Mul(Vals(tmpl.data)[i], Vals(tmpl.data)[i]) = Frac(1, w.val)
                /\ SumSq(Vals(tmpl.data)) = One
           /\ ~tret.ok => (tmpl = None /\ tret.exc.type = "ValueError")

C10_Witness ==
    /\ tcall.op = "boxcar"
    /\ tret.ok
    /\ size(tmpl) = MaxSize

-----------------------------------------------------------------------------
(* Properties of TemplateBank (checked under SpecBank).                    *)

AllMembersTemplates(b) == \A j \in DOMAIN b.items : IsTemplate(b.items[j])
IsPaddingError(r) ==
    /\ ~r.ok
    /\ r.exc = [type |-> "ValueError", msg |-> "Cannot pad template data to length n"]

\* C4: Template.prepared_data(n) raises the padding error exactly when
\* n < size and returns a length-n array otherwise; on a bank of Templates,
\* TemplateBank.prepared_data(n) raises exactly when n is less than the size
\* of some member and otherwise returns one row per member, in stored order.
C4_PaddingErrorExactlyWhenTooShort ==
    /\ bcall.op = "member.prepared_data" =>
        LET t == bank.items[bcall.j]
        IN /\ IsPaddingError(bret) <=> bcall.n < size(t)
           /\ bret.ok <=> bcall.n >= size(t)
           /\ bret.ok => (bret.val.shape = <<bcall.n>> /\ Len(Vals(bret.val)) = bcall.n)
    /\ (bcall.op = "prepared_data" /\ AllMembersTemplates(bank)) =>
        /\ IsPaddingError(bret) <=> \E j \in DOMAIN bank.items : bcall.n < size(bank.items[j])
        /\ bret.ok <=> \A j \in DOMAIN bank.items : bcall.n >= size(bank.items[j])
        /\ (bank.items # <<>> /\ maxsize(bank).ok) => (bret.ok <=> bcall.n >= maxsize(bank).val)
        /\ bret.ok =>
            /\ Len(bret.val.v) = len(bank)
            /\ bank.items # <<>> => bret.val.shape = <<len(bank), bcall.n>>
            /\ \A j \in DOMAIN bank.items :
                IsAlignedReversal(bret.val.v[j], bank.items[j], bcall.n)

C4_Witness ==
    /\ bcall.op = "prepared_data"
    /\ bret.ok
    /\ len(bank) = 2
    /\ AllMembersTemplates(bank)
    /\ size(bank.items[1]) > size(bank.items[2])
    /\ bcall.n = size(bank.items[1])

C8_BankHoldsWhatWasYielded ==
    bcall.op = "TemplateBank" =>
        LET items == bcall.templates.items
            bad == items = <<>> \/ \E i \in DOMAIN items : ~IsTemplate(items[i])
        IN /\ bad => (~bret.ok /\ bank = None)
           /\ ~bad => (bret.ok /\ bank.items = items /\ bank.items # <<>>)

\* The same for a list
C8_HoldsForLists ==
    (bcall.op = "TemplateBank" /\ bcall.templates.cls = "list") =>
        LET items == bcall.templates.items
            bad == items = <<>> \/ \E i \in DOMAIN items : ~IsTemplate(items[i])
        IN /\ bad => (~bret.ok /\ bank = None)
           /\ ~bad => (bret.ok /\ bank.items = items /\ bank.items # <<>>)

\* The width a Template was generated with
WidthOf(t) == t.shape_params.w.val
\* The bank just returned holds one Template per width, narrowest first
HoldsWidthsInOrder(kind) ==
    /\ bret.ok
    /\ bank = bret.val /\ IsTemplateBank(bank)
    /\ len(bank) = Len(bcall.widths)
    /\ \A j \in DOMAIN bank.items :
        /\ IsTemplate(bank.items[j])
        /\ bank.items[j].kind = kind
        /\ kind = "boxcar" => size(bank.items[j]) = WidthOf(bank.items[j])
    /\ \A j, k \in DOMAIN bank.items :
        j < k => WidthOf(bank.items[j]) <= WidthOf(bank.items[k])
    /\ \A v \in 1..MaxWidth :
        Cardinality({j \in DOMAIN bank.items : WidthOf(bank.items[j]) = v})
            = Cardinality({j \in DOMAIN bcall.widths : bcall.widths[j].val = v})

\* C12: for a non-empty sequence of valid widths, in any order and with
\* duplicates, boxcars(widths) and gaussians(widths) return a bank with one
\* Template per input width, duplicates kept, in non-decreasing width order.
C12_BanksAreStoredInWidthOrder ==
    /\ (/\ bcall.op = "boxcars"
        /\ bcall.widths # <<>>
        /\ \A j \in DOMAIN bcall.widths :
            bcall.widths[j].cls = "int" /\ bcall.widths[j].val > 0)
            => HoldsWidthsInOrder("boxcar")
    /\ (/\ bcall.op = "gaussians"
        /\ bcall.widths # <<>>
        /\ \A j \in DOMAIN bcall.widths :
            bcall.widths[j].cls \in {"int", "float"} /\ bcall.widths[j].val > 0)
            => HoldsWidthsInOrder("gaussian")

\* A bank of boxcars made from widths given out of order with a duplicate
C12_Witness ==
    /\ bcall.op = "boxcars"
    /\ bret.ok
    /\ Len(bcall.widths) = MaxWidths
    /\ bcall.widths[1].val > bcall.widths[2].val
    /\ bcall.widths[2].val = bcall.widths[3].val

-----------------------------------------------------------------------------
(* Properties of cpadpow2 (checked under SpecCpad).                        *)

IsPow2(N) == \E k \in 0..N : 2 ^ k = N

\* C5: for last-axis length n >= 1, cpadpow2 returns an array whose last
\* axis has length N, the least power of two >= n (so n <= N < 2n), whose
\* other axes are unchanged, with out[..., i] = in[..., i mod n]; for n a
\* power of two the output equals the input, so applying cpadpow2 to its own
\* result changes nothing.
C5_PadsCircularlyToNextPowerOfTwo ==
    (ccalls >= 1 /\ LastAxis(cx) >= 1) =>
        /\ cy.ok
        /\ LET n == LastAxis(cx)
               N == LastAxis(cy.val)
           IN /\ IsPow2(N)
              /\ n <= N /\ N < 2 * n
              /\ \A M \in n..N : IsPow2(M) => M = N
              /\ Ndim(cy.val) = Ndim(cx)
              /\ \A a \in 1..(Ndim(cx) - 1) : cy.val.shape[a] = cx.shape[a]
              /\ Len(cy.val.v) = Len(cx.v)
              /\ \A j \in DOMAIN cx.v :
                    /\ Len(cy.val.v[j]) = N
                    /\ \A i \in 0..(N - 1) : cy.val.v[j][i + 1] = cx.v[j][(i % n) + 1]
              /\ IsPow2(n) => cy.val = cx
        /\ ccalls = 2 => cy.val = cx

C5_Witness ==
    /\ ccalls = 1
    /\ Ndim(cx) = 2
    /\ LastAxis(cx) = MaxLen
    /\ cy.ok
    /\ LastAxis(cy.val) > MaxLen
    /\ cx.v[1] # cx.v[2]

C5_WitnessIdempotent ==
    /\ ccalls = 2
    /\ cy.ok
    /\ LastAxis(cx) >= 4

-----------------------------------------------------------------------------
(* Properties of snratio (checked under Spec).                             *)

ValidMu(mu) == mu.cls = "float" \/ (mu.cls = "str" /\ mu.str = "median")
ValidSigma(sigma) ==
    sigma.cls = "float" \/ (sigma.cls = "str" /\ sigma.str \in {"iqr", "diffcov"})
ValidData(data) == IsArray(data) /\ Ndim(data) \in {1, 2}
ValidTemp(temp) == IsTemplate(temp) \/ IsTemplateBank(temp)
Ended == pc \in {"done", "raised"}

TemplatesOf(temp) == IF IsTemplate(temp) THEN <<temp>> ELSE temp.items
Bins == LastAxis(args.data)
PaddedBins == 2 ^ CeilLog2(Bins)

\* x_i = (data_i - mean_i) / std_i, from the arguments and the returned
\* mean and std
NormalisedProfile(i) ==
    [k \in 1..Bins |->
        Div(Sub(args.data.v[i][k], Vals(result.val.mean)[i]), Vals(result.val.std)[i])]

\* The sum over m in [0, size) of xi[(k - r + m) mod p] * t[m], k from 0
CorrelationOverPeriod(xi, t, p, k) ==
    SumSeq([m \in 1..size(t) |->
        Mul(xi[((k - t.refbin + m - 1) % p) + 1], Vals(t.data)[m])])

SnrIsCorrelationOverPeriod ==
    LET temps == TemplatesOf(args.temp)
        nprof == Len(args.data.v)
        ntemp == Len(temps)
        map == result.val.snr
    IN /\ pc = "done"
       /\ map.shape = <<nprof, ntemp, Bins>>
       /\ \A i \in 1..nprof, j \in 1..ntemp, k \in 0..(Bins - 1) :
            map.v[(i - 1) * ntemp + j][k + 1]
                = CorrelationOverPeriod(NormalisedProfile(i), temps[j], Bins, k)

SnrCallForCorrelation ==
    /\ Ended
    /\ ValidData(args.data) /\ ValidTemp(args.temp)
    /\ ValidMu(args.mu) /\ ValidSigma(args.sigma)
    /\ Bins >= 1
    /\ \A j \in DOMAIN TemplatesOf(args.temp) : size(TemplatesOf(args.temp)[j]) <= Bins

\* C1: for every profile length p >= 1 and templates no longer than p,
\* snratio returns a map with p bins on its last axis whose entry
\* snr[i, j, k] is the circular correlation over the period p of the
\* normalised profile i with template j anchored at bin k.
C1_SnrIsCorrelationOverProfilePeriod ==
    SnrCallForCorrelation => SnrIsCorrelationOverPeriod

\* The same when p is a power of two above one and the normalised profile
\* is finite: then the padded period is the profile's own.
C1_HoldsForPowerOfTwoBins ==
    (/\ SnrCallForCorrelation
     /\ Bins = PaddedBins /\ Bins >= 2
     /\ pc = "done" => \A i \in DOMAIN args.data.v :
            IsFinite(Vals(result.val.std)[i]) /\ Vals(result.val.std)[i] # Zero)
        => SnrIsCorrelationOverPeriod

\* The numeric steps that estimate the noise, for the given mu and sigma
MeanWork == IF args.mu.cls = "str" THEN <<"noise_mean">> ELSE <<>>
StdWork == IF args.sigma.cls = "str" THEN <<"noise_std">> ELSE <<>>
WorkBeforeTemplates == MeanWork \o StdWork \o <<"normalise", "cpadpow2", "rfft">>
WorkBeforeModels == WorkBeforeTemplates \o <<"prepared_data", "rfft", "irfft">>

\* C2: a call of snratio that ends in an error has performed no numeric
\* step (noise estimate, normalisation, padding, transform, template
\* preparation, model reconstruction) before the statement that raises.
C2_NoNumericWorkBeforeError == pc = "raised" => done = <<>>

\* C2, as the code has it: the steps performed before an error are those
\* that precede the raising statement.  Only a bad data type or rank, a bad
\* template type, an empty last axis and a bad mu are raised before any
\* numeric step; a bad sigma is raised after the mean estimate when mu names
\* an estimator; a template longer than the padded profile is raised after
\* the noise estimates, normalisation, padding and the transform of the
\* data; a one-bin profile is raised by the inverse transform; a best
\* template longer than the profile is raised while the models are built.
C2_ErrorsFollowStatementOrder ==
    LET temps == TemplatesOf(args.temp)
    IN Ended =>
        IF ~ValidData(args.data) \/ ~ValidTemp(args.temp) \/ Bins = 0
                \/ ~ValidMu(args.mu)
        THEN pc = "raised" /\ done = <<>>
        ELSE IF ~ValidSigma(args.sigma)
        THEN pc = "raised" /\ done = MeanWork
        ELSE IF \E j \in DOMAIN temps : size(temps[j]) > PaddedBins
        THEN pc = "raised" /\ IsPaddingError(result) /\ done = WorkBeforeTemplates
        ELSE IF Bins = 1
        THEN pc = "raised"
             /\ done = WorkBeforeTemplates \o <<"prepared_data", "rfft">>
        ELSE IF pc = "raised"
        THEN /\ done = WorkBeforeModels
             /\ \E j \in DOMAIN temps : size(temps[j]) > Bins
        ELSE done = WorkBeforeModels \o <<"models">>

\* A call with a template longer than the padded profile has ended in the
\* padding error after the estimates and the transform of the data
C2_Witness ==
    /\ pc = "raised"
    /\ IsPaddingError(result)
    /\ done = <<"noise_mean", "noise_std", "normalise", "cpadpow2", "rfft">>

\* The errors of snratio's checks of data and temp
DataTypeError == Raise("ValueError", "data must be a numpy array")
DataRankError == Raise("ValueError", "data must be have 1 or 2 dimensions")
TempTypeError == Raise("ValueError", "temp must be a Template or TemplateBank")
\* The locals of snratio are unassigned: nothing was computed
NothingComputed ==
    /\ x = None /\ mean = None /\ std = None
    /\ fx = None /\ y = None /\ snr = None
    /\ done = <<>>

C13_WitnessRank ==
    /\ pc = "raised"
    /\ args.data.cls = "ndarray" /\ Len(args.data.shape) = 3
    /\ args.temp.cls \notin {"Template", "TemplateBank"}
    /\ result = DataRankError

\* The number of profiles of the data of the call, and the 1-D array that
\* holds one literal for each of them
Nprof == Len(args.data.v)
Broadcast(literal) ==
    Array("float64", <<Nprof>>, <<[i \in 1..Nprof |-> Num(literal.val)]>>)
IsNumber(v) == v.cls \in {"int", "float"}
MuTypeError ==
    Raise("ValueError", "mu must be either a valid noise mean estimation method name, or a float")
SigmaTypeError ==
    Raise("ValueError", "sigma must be either a valid noise stddev estimation method name, or a float")
\* What the call does with a literal for the mean, and for the std: the
\* estimator does not run, the local is the broadcast literal, and so is the
\* returned array
LiteralMeanIsBroadcast ==
    /\ "noise_mean" \notin {done[i] : i \in DOMAIN done}
    /\ mean # None => mean = Broadcast(args.mu)
    /\ pc = "done" => result.val.mean = Broadcast(args.mu)
LiteralStdIsBroadcast ==
    /\ "noise_std" \notin {done[i] : i \in DOMAIN done}
    /\ std # None => std = Broadcast(args.sigma)
    /\ pc = "done" => result.val.std = Broadcast(args.sigma)

\* C15 as stated: every numeric literal given for the mean or for the std is
\* accepted (the call does not raise on it), no estimator runs for that
\* quantity, and the returned array has length nprof with every entry equal
\* to the literal.
C15_EveryNumericLiteralIsBroadcast ==
    /\ (x # None /\ IsNumber(args.mu))
            => /\ result # MuTypeError
               /\ LiteralMeanIsBroadcast
    /\ (x # None /\ IsNumber(args.sigma))
            => /\ result # SigmaTypeError
               /\ LiteralStdIsBroadcast

\* C15, amended: a Python float given for the mean or for the std is
\* accepted, no estimator runs for that quantity, and the local and returned
\* array is 1-D of length nprof with every entry equal to the literal; a
\* Python int is rejected with ValueError, the mean before any estimate and
\* the std once the mean is set.
C15_FloatLiteralIsBroadcastIntIsRejected ==
    /\ (x # None /\ args.mu.cls = "float")
            => /\ result # MuTypeError
               /\ pc \notin {"check", "mean"} => mean # None
               /\ LiteralMeanIsBroadcast
    /\ (x # None /\ args.sigma.cls = "float")
            => /\ result # SigmaTypeError
               /\ (pc \notin {"check", "mean", "std"} /\ mean # None) => std # None
               /\ LiteralStdIsBroadcast
    /\ (x # None /\ pc # "mean" /\ args.mu.cls = "int")
            => /\ pc = "raised" /\ result = MuTypeError
               /\ mean = None /\ done = <<>>
    /\ (mean # None /\ pc # "std" /\ args.sigma.cls = "int")
            => /\ pc = "raised" /\ result = SigmaTypeError
               /\ std = None
C15_Witness ==
    /\ pc = "done" /\ Nprof = 2
    /\ args.mu = PyFloat(1) /\ args.sigma = PyFloat(2)
    /\ result.val.mean.v = <<<<Num(1), Num(1)>>>>
    /\ result.val.std.v = <<<<Num(2), Num(2)>>>>
    /\ done = <<"normalise", "cpadpow2", "rfft", "prepared_data", "rfft", "irfft", "models">>

\* The returned arrays of a completed call, and for profile i (from 1) the
\* winning template index and bin (from 0), the winning template and the S/N
\* at the maximum
Returned == result.val
WinningIndex(i) == Argmax(Flatten(Plane(Returned.snr, i)))
WinningTemp(i) == WinningIndex(i) \div Bins
WinningBin(i) == WinningIndex(i) % Bins
WinningTemplate(i) == TemplatesOf(args.temp)[WinningTemp(i) + 1]
BestSnr(i) == Plane(Returned.snr, i)[WinningTemp(i) + 1][WinningBin(i) + 1]
\* mean[i] + std[i] * snr[i, itemp, ibin] * factor
ScaledOnMean(i, factor) ==
    Add(Vals(Returned.mean)[i],
        Mul(Mul(Vals(Returned.std)[i], BestSnr(i)), factor))

ModelsAreExact ==
    pc = "done" =>
        \A i \in 1..Nprof : \A q \in 1..Bins : Returned.models.v[i][q] # NoForm

\* The value of the model of profile i at the winning bin, and the sample of
\* the winning template at its reference bin
ModelAtWinningBin(i) == Returned.models.v[i][WinningBin(i) + 1]
ReferenceSample(i) == Vals(WinningTemplate(i).data)[WinningTemplate(i).refbin + 1]

\* C17 as stated: in a call that returns, the model of every profile i has
\* the value mean[i] + std[i] * snr[i, itemp, ibin] at the winning bin ibin,
\* whatever the size of the winning template.
C17_ModelAtWinningBinIsMeanPlusStdSnr ==
    pc = "done" =>
        \A i \in 1..Nprof : ModelAtWinningBin(i) = ScaledOnMean(i, One)

\* C17, amended: in a call that returns, the model of every profile i has the
\* value mean[i] + std[i] * snr[i, itemp, ibin] * T.data[T.refbin] at the
\* winning bin, T being the winning template with its data of unit square
\* sum; when mean[i] is finite and std[i] * snr[i, itemp, ibin] is finite and
\* not zero, that is mean[i] + std[i] * snr[i, itemp, ibin] exactly when the
\* sample at the reference bin is 1.
C17_ModelAtWinningBinIsScaledByReferenceSample ==
    pc = "done" =>
        \A i \in 1..Nprof :
            /\ ModelAtWinningBin(i) = ScaledOnMean(i, ReferenceSample(i))
            /\ (/\ IsFinite(Vals(Returned.mean)[i])
                /\ IsFinite(Mul(Vals(Returned.std)[i], BestSnr(i)))
                /\ Mul(Vals(Returned.std)[i], BestSnr(i)) # Zero)
                => ((ModelAtWinningBin(i) = ScaledOnMean(i, One))
                        <=> ReferenceSample(i) = One)
C17_Witness ==
    /\ pc = "done"
    /\ \E i \in 1..Nprof :
        /\ size(WinningTemplate(i)) = 2
        /\ WinningTemplate(i).kind = "boxcar"
        /\ IsFinite(BestSnr(i)) /\ BestSnr(i) # Zero
        /\ ModelAtWinningBin(i) = ScaledOnMean(i, RSqrt(Num(2)))
        /\ ModelAtWinningBin(i) # ScaledOnMean(i, One)

-----------------------------------------------------------------------------
(* Properties of snratio on a pulse over an alternating background          *)
(* (SpecPulse).                                                             *)

\* The scenes the data of the call shows, as a batch or as a 1-D profile
IsScene(sc) ==
    \/ args.data = SceneData(sc)
    \/ sc.nprof = 1 /\ args.data = Array1(PulseProfile(sc.p, sc.j0, sc.w, sc.amp))
\* np.unravel_index(snr.argmax(), snr.shape), each index from 0
GlobalIndex == Argmax(Flatten(Returned.snr.v))
GlobalProfile == (GlobalIndex \div Bins) \div Returned.snr.shape[2]
GlobalTemp == (GlobalIndex \div Bins) % Returned.snr.shape[2]
GlobalBin == GlobalIndex % Bins
\* The templates of the claim: the boxcar of the width of the pulse, or the
\* bank of boxcars of widths 1..W with W at least that width
IsMatchedBoxcar(temp, w) == IsTemplate(temp) /\ size(temp) = w
IsBoxcarBankTo(temp, w) == IsTemplateBank(temp) /\ len(temp) >= w
\* The maximum of the map is at the pulse: its profile, its first bin, and in
\* a bank the boxcar of its width
MaximumIsAtPulse(sc) ==
    /\ GlobalProfile = sc.i0
    /\ GlobalBin = sc.j0
    /\ IsTemplateBank(args.temp) => GlobalTemp = sc.w - 1

\* C18: for a batch on an alternating background where one profile i0 has a
\* rectangular pulse of width w above the background on bins [j0, j0 + w),
\* j0 + w < p, snratio with a literal std and the boxcar of width w or the
\* bank of boxcars 1..W, w <= W, has the global maximum of snr at profile i0
\* and bin j0, and in the bank at template index w - 1.
C18_MaximumIsAtPulseStart ==
    pc = "done" =>
        \A sc \in Scenes :
            (IsScene(sc) /\ (IsMatchedBoxcar(args.temp, sc.w) \/ IsBoxcarBankTo(args.temp, sc.w)))
                => MaximumIsAtPulse(sc)

\* The maximum is at the pulse when padding copies no bin of the pulse
\* (j0 is at or past the number of bins added), every mean used lies between
\* the two background levels, and the amplitude amp is far enough above the
\* background for the widest boxcar W: w * (amp - 1)^2 > W.
WidestBoxcar == IF IsTemplate(args.temp) THEN size(args.temp) ELSE len(args.temp)
MeansWithinBackground ==
    \A i \in 1..Nprof :
        /\ IsFinite(Vals(Returned.mean)[i])
        /\ ~Less(Vals(Returned.mean)[i], Num(0))
        /\ ~Less(Num(1), Vals(Returned.mean)[i])
C18_HoldsForStrongPulseOutsidePadding ==
    pc = "done" =>
        \A sc \in Scenes :
            (/\ IsScene(sc)
             /\ IsMatchedBoxcar(args.temp, sc.w) \/ IsBoxcarBankTo(args.temp, sc.w)
             /\ sc.j0 >= PaddedBins - Bins
             /\ MeansWithinBackground
             /\ sc.w * (sc.amp - 1) * (sc.amp - 1) > WidestBoxcar)
                => MaximumIsAtPulse(sc)
\* A returned call on two profiles with estimated means, a bank and a strong
\* pulse clear of the padding
C18_StrongPulseCall ==
    /\ pc = "done" /\ Nprof = 2 /\ args.mu = PyStr("median")
    /\ IsTemplateBank(args.temp) /\ len(args.temp) = Bins
    /\ MeansWithinBackground
    /\ \E sc \in Scenes :
        /\ IsScene(sc) /\ sc.amp = MaxAmp /\ sc.w = 1 /\ sc.i0 = 1
        /\ sc.j0 >= PaddedBins - Bins
        /\ MaximumIsAtPulse(sc)
\* The strong pulse of one bin at the start of a three-bin profile, against
\* the bank of boxcars 1..3: the call returns, and the maximum is not at the
\* pulse
C18_PaddedPulseCall ==
    /\ pc = "done"
    /\ args.data = Array1(PulseProfile(3, 0, 1, MaxAmp))
    /\ args.temp = BoxcarBank(3)
    /\ args.mu = PyFloat(0) /\ args.sigma = PyFloat(1)
    /\ GlobalTemp = 2 /\ GlobalBin = 2

-----------------------------------------------------------------------------
(* Properties of snratio on a pulse matched with a Gaussian (SpecGauss).    *)

\* The pulses a profile of the length of the data can carry
PulsesInData ==
    {sc \in [j0 : 0..(Bins - 2), w : OddWidths, amp : Amplitudes] : sc.j0 + sc.w < Bins}
\* The data of the call is a profile with that pulse, alone or as the second
\* of two profiles
HasPulse(sc) ==
    \/ args.data = Array1(PulseProfile(Bins, sc.j0, sc.w, sc.amp))
    \/ args.data = PulseBatch(2, 1, Bins, sc.j0, sc.w, sc.amp)
\* The profile (from 1) that carries the pulse
PulseRow == Nprof
\* The template is Template.gaussian(w)
IsGaussianOfWidth(temp, w) ==
    IsTemplate(temp) /\ temp.kind = "gaussian" /\ temp.shape_params.w = PyFloat(w)
\* The maximum of the map and the maximum of the model are at the bin
PeaksAt(bin) ==
    /\ GlobalProfile = PulseRow - 1
    /\ GlobalBin = bin
    /\ Argmax(Returned.models.v[PulseRow]) = bin

\* C19: for a profile with a rectangular pulse of odd width w on bins
\* [i0, i0 + w) and the template Template.gaussian(w), the global maximum of
\* snr is at bin i0 + w // 2 of that profile, and the maximum of the model of
\* that profile is at the same bin.
C19_GaussianPeaksAtPulseCentre ==
    pc = "done" =>
        \A sc \in PulsesInData :
            (HasPulse(sc) /\ IsGaussianOfWidth(args.temp, sc.w))
                => PeaksAt(sc.j0 + sc.w \div 2)
\* The maxima are at the centre of the pulse when padding copies no bin of
\* the pulse (j0 is at or past the number of bins added)
C19_HoldsForPulseOutsidePadding ==
    pc = "done" =>
        \A sc \in PulsesInData :
            (/\ HasPulse(sc) /\ IsGaussianOfWidth(args.temp, sc.w)
             /\ sc.j0 >= PaddedBins - Bins)
                => PeaksAt(sc.j0 + sc.w \div 2)
C19_PulseOutsidePaddingCall ==
    /\ pc = "done"
    /\ IsGaussianOfWidth(args.temp, 3)
    /\ args.mu = PyStr("median")
    /\ Nprof = 2
    /\ \E sc \in PulsesInData :
        /\ HasPulse(sc) /\ sc.w = 3 /\ sc.j0 >= PaddedBins - Bins
        /\ PeaksAt(sc.j0 + 1)
\* The strong pulse of three bins at the start of a 13-bin profile: the call
\* returns with the maximum of the map at bin 0, not at the centre bin 1
C19_PaddedPulseCall ==
    /\ pc = "done"
    /\ args.data = Array1(PulseProfile(13, 0, 3, MaxAmp))
    /\ IsGaussianOfWidth(args.temp, 3)
    /\ args.mu = PyStr("median") /\ args.sigma = PyFloat(1)
    /\ GlobalBin = 0

-----------------------------------------------------------------------------
(* Properties of snratio on a batch against its rows alone (SpecBatch).     *)

\* The call on the row alone has ended, after the call on the batch
BothEnded == kept # None /\ Ended
\* What the call on the batch returned for the row, and what the call on
\* the row alone returned
BatchRow ==
    [snr |-> Plane(kept.result.val.snr, kept.row),
     mean |-> Vals(kept.result.val.mean)[kept.row],
     std |-> Vals(kept.result.val.std)[kept.row],
     models |-> kept.result.val.models.v[kept.row]]
RowAlone ==
    [snr |-> Plane(Returned.snr, 1),
     mean |-> Vals(Returned.mean)[1],
     std |-> Vals(Returned.std)[1],
     models |-> Returned.models.v[1]]

\* C20: the rows of a batch are processed independently: whatever the other
\* row holds and wherever the row sits, the call on the batch gives for row i
\* the snr[i], mean[i], std[i] and models[i] that the call on that row alone,
\* as a 1-D profile, gives.
C20_RowOfBatchEqualsRowAlone ==
    BothEnded =>
        /\ result.ok <=> kept.result.ok
        /\ result.ok => BatchRow = RowAlone

\* Whenever both calls return, the results for the row are the same, and a
\* row that fails alone fails the batch.
C20_HoldsWhenBothReturn ==
    BothEnded =>
        /\ (result.ok /\ kept.result.ok) => BatchRow = RowAlone
        /\ ~result.ok => ~kept.result.ok
C20_BothReturnCall ==
    /\ BothEnded /\ result.ok /\ kept.result.ok
    /\ kept.row = 2
    /\ kept.args.data.v[1] # kept.args.data.v[2]
    /\ kept.args.mu = PyStr("median") /\ kept.args.sigma = PyStr("iqr")
    /\ IsFinite(RowAlone.models[1]) /\ RowAlone.snr[1][1] # Zero
\* The batch raised in the model of its other row, the row alone returns
C20_OtherRowFailsBatch ==
    /\ BothEnded /\ result.ok /\ ~kept.result.ok
    /\ kept.args.data = Array2(<<<<Num(1), Num(0), Num(0)>>, <<Num(1), Num(1), Num(1)>>>>, 3)
    /\ kept.row = 1
    /\ kept.args.temp = BoxcarBank(MaxTemp)
    /\ kept.args.mu = PyFloat(0) /\ kept.args.sigma = PyFloat(1)

-----------------------------------------------------------------------------
(* Properties of the selection of an estimator by name (SpecNoise).        *)

UnknownMean ==
    UnknownMethod("Noise mean estimation method must be one of: ", <<"median">>)
UnknownStd ==
    UnknownMethod("Noise stddev estimation method must be one of: ",
                  <<"iqr", "diffcov">>)
IsUnknownMean(name) == name \notin {"median"}
IsUnknownStd(name) == name \notin {"iqr", "diffcov"}

C14_WitnessSnratio ==
    /\ pc = "raised" /\ args.mu = PyStr("median") /\ args.sigma = PyStr("std")
    /\ result = UnknownStd /\ done = <<"noise_mean">>

-----------------------------------------------------------------------------
(* Properties of the caller's objects across calls (SpecFrame).            *)

\* The function snratio and the statements of Spec end every call alike
\* (checked under Spec).
SnratioIsItsSteps ==
    Ended => result = snratio(args.data, args.temp, args.mu, args.sigma).out

\* C21: a call of snratio, noise_mean, noise_std, cpadpow2, the Template
\* constructor, Template.prepared_data or TemplateBank.prepared_data, whether
\* it returns or raises, leaves the caller's data array and every Template
\* (data, refbin, reference, kind, shape_params) as they were before it, and
\* prepared_data(n) called again on the same Template returns an equal array.
C21_CallsLeaveCallerObjectsUnchanged ==
    [][/\ held' = held
       /\ (fcall'.op = "prepared_data" /\ fcall'.nth = 2) => fret' = fret]_vars

\* snratio has returned on a batch of two different profiles, its loop
\* having written both model rows
C21_Witness ==
    /\ fcall.op = "snratio" /\ fret.ok
    /\ Ndim(held.data) = 2 /\ held.data.v[1] # held.data.v[2]
    /\ fcall.mu = PyStr("median") /\ fcall.sigma = PyStr("iqr")
    /\ fret.val.models # held.data
\* snratio has raised inside its loop over the profiles
C21_WitnessRaised ==
    /\ fcall.op = "snratio" /\ ~fret.ok
    /\ held.temp = BoxcarBank(MaxTemp)
    /\ held.data = Array2(<<<<Num(1), Num(1), Num(1)>>, <<Num(1), Num(1), Num(1)>>>>, 3)
    /\ fcall.mu = PyFloat(0) /\ fcall.sigma = PyFloat(1)
    /\ snratio(held.data, held.temp, fcall.mu, fcall.sigma).line = 106
\* prepared_data has been called twice in a row on a member of a bank
C21_WitnessPreparedTwice ==
    /\ fcall.op = "prepared_data" /\ fcall.nth = 2 /\ fret.ok
    /\ fcall.j = 2 /\ fcall.n > size(held.temp.items[2])

-----------------------------------------------------------------------------
(* Properties of model reconstruction (checked under Spec).                *)

\* Every template is at most as long as the padded profile
TemplatesFitPadded == \A j \in DOMAIN TemplatesOf(args.temp) :
    size(TemplatesOf(args.temp)[j]) <= PaddedBins
\* Every template is at most as long as the profile
TemplatesFitProfile == \A j \in DOMAIN TemplatesOf(args.temp) :
    size(TemplatesOf(args.temp)[j]) <= Bins

\* C22: once snratio is past template preparation (every template is at most
\* as long as the padded length N) and has its S/N map, the call does not
\* raise: a model row is built for every profile, the winning template
\* fitting into its p bins, also when p is not a power of two and a template
\* has a size in (p, N].
C22_ReconstructionCompletesPastPreparation ==
    (y # None /\ TemplatesFitPadded /\ snr # None) => pc # "raised"

\* What holds: with at least two bins and no template longer than the
\* profile, a call that is past template preparation returns.
C22_HoldsWhenTemplatesFitProfile ==
    (y # None /\ Bins >= 2 /\ TemplatesFitProfile) => pc # "raised"
C22_TemplatesFitProfileCall ==
    /\ pc = "done" /\ Bins = 3 /\ PaddedBins = 4
    /\ IsTemplateBank(args.temp) /\ len(args.temp) = 3
    /\ args.mu = PyStr("median") /\ args.sigma = PyFloat(1)

\* The winning template is longer than the profile: line 106 raises
C22_WinnerLongerThanProfile ==
    /\ pc = "raised" /\ snr # None
    /\ args.data = Array1(<<Num(1), Num(1), Num(1)>>)
    /\ args.temp = BoxcarBank(4)
    /\ args.mu = PyFloat(0) /\ args.sigma = PyFloat(1)
    /\ result = Raise("ValueError", "operands could not be broadcast together")
    /\ Argmax(Flatten(Plane(snr, 1))) \div Bins = 3

-----------------------------------------------------------------------------
(* Properties of the choice of the best match (checked under SpecTies and  *)
(* under Spec).                                                            *)

\* The S/N map exists and the loop over the profiles has been reached
HasMap == snr # None /\ pc \in {"models", "done", "raised"}
\* snr[i, j, k], indices from 0 for j and k
MapAt(i, j, k) == Plane(snr, i)[j + 1][k + 1]
Pairs == (0..(snr.shape[2] - 1)) \X (0..(Bins - 1))
PlaneHasNaN(i) == \E pr \in Pairs : IsNaN(MapAt(i, pr[1], pr[2]))
\* No pair has a larger S/N
IsMaximal(i, pr) == \A other \in Pairs :
    ~Less(MapAt(i, pr[1], pr[2]), MapAt(i, other[1], other[2]))
\* pr comes before other in (template, bin) order, or is other
Precedes(pr, other) == pr[1] < other[1] \/ (pr[1] = other[1] /\ pr[2] <= other[2])
\* The maximal pair of lowest template index and, in it, lowest bin index
LowestMaximalPair(i) ==
    CHOOSE pr \in Pairs :
        /\ IsMaximal(i, pr)
        /\ \A other \in Pairs : IsMaximal(i, other) => Precedes(pr, other)
\* The model row that a pair gives (lines 105-108)
ModelOfPair(i, pr) ==
    LET T == TemplatesOf(args.temp)[pr[1] + 1]
        amp == Mul(Vals(std)[i], MapAt(i, pr[1], pr[2]))
    IN Roll([k \in 1..Bins |->
                IF k <= size(T)
                THEN Add(Vals(mean)[i], Mul(Vals(T.data)[k], amp))
                ELSE Vals(mean)[i]],
            pr[2] - T.refbin)

\* C23: the (template, bin) pair that model reconstruction uses for a profile
\* is determined by the profile's S/N plane: it is the pair of maximal S/N
\* and, among several of the same maximal S/N, the one of lowest template
\* index and then lowest bin index; 0 <= itemp < ntemp and 0 <= ibin < p;
\* the returned model row is the one built from that pair.
C23_BestPairIsLowestMaximalPair ==
    HasMap => \A i \in 1..snr.shape[1] :
        /\ BestPair(snr, i) \in Pairs
        /\ ~PlaneHasNaN(i) =>
            /\ BestPair(snr, i) = LowestMaximalPair(i)
            /\ pc = "done" => result.val.models.v[i] = ModelOfPair(i, LowestMaximalPair(i))

\* A returned call in which two templates share the maximal S/N of a
\* profile, not zero, the second at a lower bin than the first, and the two
\* pairs give different model rows
C23_Witness ==
    /\ pc = "done"
    /\ ~PlaneHasNaN(1)
    /\ BestPair(snr, 1) = <<0, 1>>
    /\ MapAt(1, 0, 1) = One
    /\ IsMaximal(1, <<1, 0>>)
    /\ ModelOfPair(1, <<0, 1>>) # ModelOfPair(1, <<1, 0>>)
    /\ size(TemplatesOf(args.temp)[2]) = 4

-----------------------------------------------------------------------------
(* Properties of the standard deviation snratio divides by (SpecStd).      *)

IsPositive(a) == IsFinite(a) /\ Less(Zero, a)
\* Line 77 has been reached: std is what x is, or is about to be, divided by
AtNormalisation == std # None /\ pc # "raised"

\* C24: when snratio reaches the normalisation of line 77, every entry of
\* std, whether it comes from a literal, from 'iqr' or from 'diffcov', is a
\* finite number above zero; a std that is zero, negative or undefined ends
\* the call with an error before that.
C24_StdIsPositiveAtNormalisation ==
    AtNormalisation => \A i \in DOMAIN Vals(std) : IsPositive(Vals(std)[i])

\* What holds: a positive literal is used as given; 'iqr' never gives a
\* negative number or, for finite data, nan; a std that is not positive
\* raises no error at line 77 or after it on its own account.
C24_HoldsForPositiveLiteral ==
    AtNormalisation => \A i \in DOMAIN Vals(std) :
        /\ (args.sigma.cls = "float" /\ args.sigma.val > 0) => IsPositive(Vals(std)[i])
        /\ args.sigma = PyStr("iqr") =>
                (Vals(std)[i] = Zero \/ IsPositive(Vals(std)[i]))
\* The call has returned with a std of zero from 'iqr' on a constant profile
C24_ZeroIqrCall ==
    /\ pc = "done" /\ args.sigma = PyStr("iqr")
    /\ args.data = Array1(<<Num(1), Num(1), Num(1), Num(1)>>)
    /\ Vals(result.val.std) = <<Zero>>
    /\ \A k \in 1..4 : IsNaN(result.val.snr.v[1][k])
\* The call has returned with a literal std of zero, or below zero
C24_ZeroLiteralCall ==
    /\ pc = "done" /\ args.sigma = PyFloat(0) /\ Vals(result.val.std) = <<Zero>>
C24_NegativeLiteralCall ==
    /\ pc = "done" /\ args.sigma = PyFloat(-1) /\ Vals(result.val.std) = <<Num(-1)>>
\* The call has returned with a std that 'diffcov' left undefined
C24_UndefinedDiffcovCall ==
    /\ pc = "done" /\ args.sigma = PyStr("diffcov")
    /\ LastAxis(args.data) = 4 /\ Ndim(args.data) = 1
    /\ IsNaN(Vals(result.val.std)[1])

====
